---- MODULE Spec2Model ----
(***************************************************************************)
(* A model of the log-ingestion core of mmdvm-dash: the log parsers        *)
(* (dashboard/parsers.py), the per-file monitor with its startup backfill  *)
(* and its polling tail (dashboard/monitor.py), and the dashboard state    *)
(* with its broadcast to WebSocket clients (dashboard/state.py), all run   *)
(* by one asyncio event loop.                                              *)
(*                                                                         *)
(* A field that holds Python values of several types holds "None", "True"  *)
(* or "False" for None, True and False, and a str as it is ("unknown",     *)
(* "Kansas"); no str of the model is spelled like one of the three.        *)
(***************************************************************************)
EXTENDS Integers, Sequences, FiniteSets, TLC

\* ------------------------------------------------------------------ bounds
\* Lines the producer appends to the tailed log in one behaviour.
MaxAppend == 3
\* The wall clock runs from 0 to MaxClock.
MaxClock == 1
\* WebSocket clients that may connect.
MaxClients == 2
\* Lines of one dated file of the backfill walk.
MaxDayLines == 2
\* Times the repeating producer writes its line.
MaxRepeat == 2
\* Times a producer's log is truncated in place.
MaxTruncate == 1
\* The UTC date runs from day 0 to day MaxDay.
MaxDay == 1

\* ------------------------------------------------------- program constants
max_recent_calls == 50
max_events == 100
lookback_lines == 5000
ScanDays == 14
RecentCallsLimit == 10
EventsLimit == 20

\* ------------------------------------------------------------ Python values
None == "None"
PyTrue == "True"
PyFalse == "False"
Truthy(v) == v \notin {"None", "False", "''"}

EmptyDict == [k \in {} |-> 0]
DictSet(d, k, v) == [x \in (DOMAIN d) \cup {k} |-> IF x = k THEN v ELSE d[x]]
DictGet(d, k, dflt) == IF k \in DOMAIN d THEN d[k] ELSE dflt
DictDel(d, k) == [x \in (DOMAIN d) \ {k} |-> d[x]]

\* A faulty deque: no entry is ever dropped
DequeAppend_unbounded(q, x, n) == Append(q, x)
\* collections.deque(maxlen=n).append
DequeAppend(q, x, n) == IF Len(q) >= n THEN Append(Tail(q), x) ELSE Append(q, x)

Reverse(s) == [i \in 1..Len(s) |-> s[Len(s) + 1 - i]]

\* s[:n] of a Python list
Take(s, n) == IF Len(s) <= n THEN s ELSE SubSeq(s, 1, n)
\* s[-n:] of a Python list, n > 0
LastN(s, n) == IF Len(s) <= n THEN s ELSE SubSeq(s, Len(s) - n + 1, Len(s))

RECURSIVE SetToSeq(_)
SetToSeq(S) == IF S = {} THEN << >> ELSE LET x == CHOOSE y \in S : TRUE IN <<x>> \o SetToSeq(S \ {x})

\* ------------------------------------------------------------------- lines
(***************************************************************************)
(* A log line is a record: `text` names the pattern of parsers.py that its *)
(* message matches first (or "blank": only white space, "nohdr": no        *)
(* "L: yyyy-mm-dd hh:mm:ss.mmm " header, "other": a header and a message   *)
(* no pattern matches), the other fields are the groups the pattern        *)
(* captures, `ts` is the header's time and `tsok` whether strptime accepts *)
(* it (the header pattern also admits 2025-13-45 99:99:99.000).            *)
(***************************************************************************)
BlankLine == [text |-> "blank"]
NoHeaderLine == [text |-> "nohdr"]
OtherLine(ts) == [text |-> "other", ts |-> ts]
ModeSetLine(mode, ts) == [text |-> "Mode set to", mode |-> mode, ts |-> ts]
DmrHeaderLine(slot, src, dst, ts) ==
    [text |-> "DMR voice header", slot |-> slot, source_type |-> "RF", source |-> src,
     destination |-> dst, ts |-> ts]
DmrEndLine(slot, src, dst, ts) ==
    [text |-> "DMR end of voice transmission", slot |-> slot, source_type |-> "RF",
     source |-> src, destination |-> dst, ts |-> ts]
YsfHeaderLine(src, dst, ts) ==
    [text |-> "YSF header", source_type |-> "RF", source |-> src, destination |-> dst, ts |-> ts]
YsfEndLine(src, dst, ts) ==
    [text |-> "YSF end of transmission", source_type |-> "RF", source |-> src,
     destination |-> dst, ts |-> ts]
NetConnectedLine(network, ts) == [text |-> "Network, connected", network |-> network, ts |-> ts]
NetDisconnectedLine(network, ts) ==
    [text |-> "Network, disconnected", network |-> network, ts |-> ts]
MmdvmConnectedLine(ts) == [text |-> "MMDVM has connected", ts |-> ts]
LoginLine(network, ts) ==
    [text |-> "Logged into the master successfully", network |-> network, ts |-> ts]
ClosingLine(network, ts) == [text |-> "Closing DMR Network", network |-> network, ts |-> ts]
LinkedToLine(reflector, ts) == [text |-> "Linked to", reflector |-> reflector, ts |-> ts]
DisconnectRequestedLine(ts) == [text |-> "Disconnect has been requested", ts |-> ts]
LinkedReflectorLine(reflector, ts) ==
    [text |-> "linked to reflector", reflector |-> reflector, ts |-> ts]

\* The line with a header time the pattern admits and strptime rejects
\* (2025-13-45 99:99:99.000)
BadTime(line) == [k \in (DOMAIN line) \cup {"tsok"} |-> IF k = "tsok" THEN FALSE ELSE line[k]]

\* A line the producer writes in two writes. The first write ends inside the message,
\* after the header, and has no newline; the second is the rest of the line and its
\* newline. A file's size and the read cursor count writes.
HeadPiece(line) == [text |-> "other", ts |-> line.ts, cut |-> line]
TailPiece(line) == [text |-> "nohdr", rest |-> line]

\* line.strip() == '' (monitor.py:171-173, 315-317)
IsBlank(line) == line.text = "blank"

\* ----------------------------------------------------------------- parsers
NoEntry == [entry |-> "None"]

\* re.match(TIMESTAMP_PATTERN, line) and datetime.strptime, shared by the four parsers
HeaderMatches(line) == line.text \notin {"blank", "nohdr"}
HeaderTimestamp(line, now) == IF DictGet(line, "tsok", TRUE) THEN line.ts ELSE now

MMDVMHostParser_parse_message(line) ==
    CASE line.text = "Mode set to" -> [event |-> "mode_change", mode |-> line.mode]
      [] line.text = "DMR voice header" ->
            [event |-> "dmr_rx", slot |-> line.slot, source_type |-> line.source_type,
             source |-> line.source, destination |-> line.destination, mode |-> "DMR"]
      [] line.text = "DMR end of voice transmission" ->
            [event |-> "dmr_end", slot |-> line.slot, source_type |-> line.source_type,
             source |-> line.source, destination |-> line.destination, mode |-> "DMR"]
      [] line.text = "D-Star header" ->
            [event |-> "dstar_rx", source_callsign |-> line.source_callsign,
             source_suffix |-> line.source_suffix, destination |-> line.destination,
             mode |-> "D-Star"]
      [] line.text = "D-Star end of transmission" -> [event |-> "dstar_end", mode |-> "D-Star"]
      [] line.text = "YSF header" ->
            [event |-> "ysf_rx", source_type |-> line.source_type, source |-> line.source,
             destination |-> line.destination, mode |-> "YSF"]
      [] line.text = "YSF end of transmission" ->
            [event |-> "ysf_end", source_type |-> line.source_type, source |-> line.source,
             destination |-> line.destination, mode |-> "YSF"]
      [] line.text = "P25 voice transmission" ->
            [event |-> "p25_rx", source_type |-> line.source_type, source |-> line.source,
             destination |-> line.destination, mode |-> "P25"]
      [] line.text = "P25 header" ->
            [event |-> "p25_rx", source_type |-> line.source_type, source |-> "Unknown",
             destination |-> "Unknown", mode |-> "P25"]
      [] line.text = "P25 end of voice transmission" ->
            [event |-> "p25_end", source_type |-> line.source_type, source |-> line.source,
             destination |-> line.destination, mode |-> "P25"]
      [] line.text = "NXDN header" ->
            [event |-> "nxdn_rx", source_type |-> line.source_type, source |-> line.source,
             destination |-> line.destination, mode |-> "NXDN"]
      [] line.text = "NXDN end of transmission" ->
            [event |-> "nxdn_end", source_type |-> line.source_type, source |-> line.source,
             destination |-> line.destination, mode |-> "NXDN"]
      [] line.text = "FM received" -> [event |-> "fm_rx", mode |-> "FM"]
      [] line.text = "Network, connected" ->
            [event |-> "network_connected", network |-> line.network]
      [] line.text = "Network, disconnected" ->
            [event |-> "network_disconnected", network |-> line.network]
      [] line.text = "MMDVM protocol version" ->
            [event |-> "modem_info", protocol_version |-> line.protocol_version,
             description |-> line.description]
      [] line.text = "Error:" -> [event |-> "error", error_message |-> line.error_message]
      [] OTHER -> EmptyDict

DMRGatewayParser_parse_message(line) ==
    CASE line.text = "MMDVM has connected" -> [event |-> "dmr_mmdvm_connected"]
      [] line.text = "Logged into the master successfully" ->
            [event |-> "dmr_network_connected", network |-> line.network]
      [] line.text = "Closing DMR Network" ->
            [event |-> "dmr_network_disconnected", network |-> line.network]
      [] line.text = "Received voice header" ->
            [event |-> "talkgroup_activity", source |-> line.source,
             talkgroup |-> line.talkgroup]
      [] OTHER -> EmptyDict

YSFGatewayParser_parse_message(line) ==
    CASE line.text = "Linked to" -> [event |-> "ysf_linked", reflector |-> line.reflector]
      [] line.text = "Link successful to MMDVM" -> [event |-> "ysf_mmdvm_connected"]
      [] line.text = "Automatic (re-)connection" ->
            [event |-> "ysf_reconnected", reflector_id |-> line.reflector_id,
             reflector |-> line.reflector]
      [] line.text = "Connect to has been requested" ->
            [event |-> "ysf_connect_requested", reflector |-> line.reflector]
      [] line.text = "Disconnect has been requested" -> [event |-> "ysf_disconnect_requested"]
      [] OTHER -> EmptyDict

P25GatewayParser_parse_message(line) ==
    CASE line.text = "Opening Rpt network connection" -> [event |-> "p25_mmdvm_connected"]
      [] line.text = "Closing Rpt network connection" -> [event |-> "p25_mmdvm_disconnected"]
      [] line.text = "linked to reflector" ->
            [event |-> "p25_reflector_linked", reflector |-> line.reflector]
      [] line.text = "Opening P25 network connection" -> [event |-> "p25_network_opening"]
      [] line.text = "Closing P25 network connection" -> [event |-> "p25_network_closing"]
      [] OTHER -> EmptyDict

\* get_parser: the parser class of a parser type, "None" when there is none
get_parser(parser_type) ==
    CASE parser_type \in {"mmdvm", "mmdvmhost"} -> "MMDVMHostParser"
      [] parser_type = "dmrgateway" -> "DMRGatewayParser"
      [] parser_type \in {"ysfgateway", "nxdngateway"} -> "YSFGatewayParser"
      [] parser_type = "p25gateway" -> "P25GatewayParser"
      [] OTHER -> None

\* parser.parse_line(line) of the parser class `parser`, called at wall-clock time `now`
parse_line(parser, line, now) ==
    IF ~HeaderMatches(line) THEN NoEntry
    ELSE [timestamp |-> HeaderTimestamp(line, now),
          data |-> CASE parser = "MMDVMHostParser" -> MMDVMHostParser_parse_message(line)
                     [] parser = "DMRGatewayParser" -> DMRGatewayParser_parse_message(line)
                     [] parser = "YSFGatewayParser" -> YSFGatewayParser_parse_message(line)
                     [] parser = "P25GatewayParser" -> P25GatewayParser_parse_message(line)]

\* --------------------------------------------------------- monitor names
\* source_name.lower() of the names a log root gives a monitor
Lower(name) ==
    CASE name \in {"MMDVM", "mmdvm"} -> "mmdvm"
      [] name \in {"MMDVMHost", "mmdvmhost"} -> "mmdvmhost"
      [] name = "DMRGateway" -> "dmrgateway"
      [] name = "YSFGateway" -> "ysfgateway"
      [] name = "P25Gateway" -> "p25gateway"
      [] name = "NXDNGateway" -> "nxdngateway"
      [] OTHER -> "gateway"

\* parser_map.get(source_name, source_name.lower()) of start_monitors
ParserType(name) ==
    CASE name \in {"MMDVM", "mmdvm"} -> "mmdvmhost"
      [] name = "DMRGateway" -> "dmrgateway"
      [] name = "YSFGateway" -> "ysfgateway"
      [] name = "P25Gateway" -> "p25gateway"
      [] name = "NXDNGateway" -> "nxdngateway"
      [] OTHER -> Lower(name)

\* self.name in ['MMDVM', 'mmdvm', 'MMDVMHost'] (monitor.py:320)
LogsToBuffer(name) == name \in {"MMDVM", "mmdvm", "MMDVMHost"}

\* LogMonitor._get_state_targets: the facts the backfill of a monitor seeks
get_state_targets(name) ==
    (IF Lower(name) \in {"mmdvm", "mmdvmhost"} THEN {"current_mode"} ELSE {})
    \cup (CASE name = "DMRGateway" -> {"dmr_mmdvm_connection", "dmr_network_connection"}
            [] name = "P25Gateway" -> {"p25_reflector"}
            [] name = "YSFGateway" -> {"ysf_reflector"}
            [] OTHER -> {})

\* ------------------------------------------------------------- state store
(***************************************************************************)
(* The DashboardState object is a record `s` with the fields of            *)
(* state.py:66-88.  Transmission objects live in s.objs and are referred   *)
(* to by their index there: recent_calls and active_transmissions hold the *)
(* same object, an Event's data holds a copy (asdict).  A dict that is     *)
(* iterated (active_transmissions) is the sequence of its items in         *)
(* insertion order.  An Event's message and source are functions of its    *)
(* event_type and data and are left out.  s.created counts the             *)
(* asyncio.create_task(self.broadcast_status_update()) calls of the        *)
(* running step; the step hands them to the event loop.                    *)
(***************************************************************************)
Transmission(timestamp, mode, source, destination, slot, network) ==
    [timestamp |-> timestamp, mode |-> mode, source |-> source, destination |-> destination,
     slot |-> slot, network |-> network, duration |-> 0, active |-> TRUE]

\* DashboardState.__init__ at wall-clock time t
NewDashboardState(t) ==
    [status |-> [current_mode |-> "IDLE", modem_connected |-> FALSE, modem_description |-> "",
                 networks |-> EmptyDict, last_update |-> t,
                 mmdvm_running |-> FALSE, enabled_modes |-> << >>, gateways |-> EmptyDict,
                 info |-> EmptyDict],
     recent_calls |-> << >>,
     events |-> << >>,
     active_transmissions |-> << >>,
     objs |-> << >>,
     websocket_clients |-> {},
     stats |-> [total_calls_today |-> 0, calls_by_mode |-> EmptyDict, active_users |-> {}],
     suppress_broadcasts |-> FALSE,
     last_broadcast_hash |-> << >>,
     broadcast_pending |-> FALSE,
     created |-> 0]

create_task(s) == [s EXCEPT !.created = @ + 1]

add_event(s, event) == [s EXCEPT !.events = DequeAppend(@, event, max_events)]

update_mode(s, mode, t) ==
    LET old_mode == s.status.current_mode
        s1 == [s EXCEPT !.status.current_mode = mode, !.status.last_update = t]
        event == [timestamp |-> t, event_type |-> "mode_change",
                  data |-> [old_mode |-> old_mode, new_mode |-> mode]]
    IN create_task(add_event(s1, event))

\* update_network_status that leaves the stored value alone on a disconnection
update_network_status_keep(s, network, connected, target, t) ==
    LET value == IF Truthy(connected) /\ Truthy(target) THEN target
                 ELSE IF Truthy(connected) THEN connected
                 ELSE DictGet(s.status.networks, network, connected)
        s1 == [s EXCEPT !.status.networks = DictSet(@, network, value),
                        !.status.last_update = t]
        event == [timestamp |-> t, event_type |-> "network_status",
                  data |-> [network |-> network, connected |-> connected, target |-> target]]
    IN add_event(s1, event)

update_network_status(s, network, connected, target, t) ==
    LET value == IF Truthy(connected) /\ Truthy(target) THEN target ELSE connected
        s1 == [s EXCEPT !.status.networks = DictSet(@, network, value),
                        !.status.last_update = t]
        event == [timestamp |-> t, event_type |-> "network_status",
                  data |-> [network |-> network, connected |-> connected, target |-> target]]
    IN add_event(s1, event)

\* DashboardState.update_expected_state, applied at time t; enabled_networks is the
\* set of the list's members
update_expected_state(s, expected_state, t) ==
    LET new_mmdvm_running == DictGet(expected_state, "mmdvm_running", FALSE)
        new_enabled_modes == DictGet(expected_state, "enabled_modes", << >>)
        new_info == DictGet(expected_state, "info", EmptyDict)
        enabled_networks == DictGet(expected_state, "enabled_networks", {})
        gateways == DictGet(expected_state, "gateways", EmptyDict)
        networks == s.status.networks
        marked == {n \in enabled_networks : n \notin DOMAIN networks \/ networks[n] = PyFalse}
        new_networks == [n \in (DOMAIN networks) \cup marked |->
                            IF n \in marked THEN PyTrue ELSE networks[n]]
        new_gateways == [g \in DOMAIN gateways |->
                            [is_running |-> DictGet(gateways[g], "is_running", FALSE),
                             enabled |-> DictGet(gateways[g], "enabled", FALSE),
                             networks |-> DictGet(gateways[g], "networks", EmptyDict)]]
        changed == \/ s.status.mmdvm_running # new_mmdvm_running
                   \/ s.status.enabled_modes # new_enabled_modes
                   \/ s.status.info # new_info
                   \/ marked # {}
                   \/ s.status.gateways # new_gateways
        s1 == [s EXCEPT !.status.mmdvm_running = new_mmdvm_running,
                        !.status.enabled_modes = new_enabled_modes,
                        !.status.info = new_info,
                        !.status.networks = new_networks,
                        !.status.gateways = new_gateways]
    IN IF changed THEN create_task([s1 EXCEPT !.status.last_update = t]) ELSE s1

TxKey(tx) == <<tx.mode, tx.slot, tx.source>>
ActiveKeys(s) == {s.active_transmissions[i].key : i \in DOMAIN s.active_transmissions}
ActiveIndex(s, key) ==
    CHOOSE i \in DOMAIN s.active_transmissions : s.active_transmissions[i].key = key
\* active_transmissions[key] = obj: an existing key keeps its place
ActivePut(items, key, obj) ==
    IF \E i \in DOMAIN items : items[i].key = key
    THEN [i \in DOMAIN items |->
            IF items[i].key = key THEN [key |-> key, obj |-> obj] ELSE items[i]]
    ELSE Append(items, [key |-> key, obj |-> obj])
\* del active_transmissions[key]
ActiveDel(items, key) == SelectSeq(items, LAMBDA it : it.key # key)

\* A faulty add_transmission: a start whose key is already active is not counted again
add_transmission_once(s, transmission) ==
    LET key == TxKey(transmission)
        obj == Len(s.objs) + 1
        fresh == key \notin ActiveKeys(s)
        mode_stats == DictGet(s.stats.calls_by_mode, transmission.mode, 0)
        s1 == [s EXCEPT !.objs = Append(@, transmission),
                        !.active_transmissions = ActivePut(@, key, obj),
                        !.recent_calls = DequeAppend(@, obj, max_recent_calls),
                        !.stats.total_calls_today = IF fresh THEN @ + 1 ELSE @,
                        !.stats.calls_by_mode =
                            IF fresh THEN DictSet(@, transmission.mode, mode_stats + 1) ELSE @,
                        !.stats.active_users = @ \cup {transmission.source}]
        event == [timestamp |-> transmission.timestamp, event_type |-> "transmission_start",
                  data |-> transmission]
    IN create_task(add_event(s1, event))

\* A faulty add_transmission: the call is counted in the total but not under its mode
add_transmission_unsorted(s, transmission) ==
    LET key == TxKey(transmission)
        obj == Len(s.objs) + 1
        s1 == [s EXCEPT !.objs = Append(@, transmission),
                        !.active_transmissions = ActivePut(@, key, obj),
                        !.recent_calls = DequeAppend(@, obj, max_recent_calls),
                        !.stats.total_calls_today = @ + 1,
                        !.stats.active_users = @ \cup {transmission.source}]
        event == [timestamp |-> transmission.timestamp, event_type |-> "transmission_start",
                  data |-> transmission]
    IN create_task(add_event(s1, event))

add_transmission(s, transmission) ==
    LET key == TxKey(transmission)
        obj == Len(s.objs) + 1
        mode_stats == DictGet(s.stats.calls_by_mode, transmission.mode, 0)
        s1 == [s EXCEPT !.objs = Append(@, transmission),
                        !.active_transmissions = ActivePut(@, key, obj),
                        !.recent_calls = DequeAppend(@, obj, max_recent_calls),
                        !.stats.total_calls_today = @ + 1,
                        !.stats.calls_by_mode = DictSet(@, transmission.mode, mode_stats + 1),
                        !.stats.active_users = @ \cup {transmission.source}]
        event == [timestamp |-> transmission.timestamp, event_type |-> "transmission_start",
                  data |-> transmission]
    IN create_task(add_event(s1, event))

\* A faulty end_transmission: the end of a key that is not active is announced as well
end_transmission_loud(s, key, duration, t) ==
    IF key \in ActiveKeys(s)
    THEN LET obj == s.active_transmissions[ActiveIndex(s, key)].obj
             s1 == [s EXCEPT !.objs[obj].active = FALSE, !.objs[obj].duration = duration]
             event == [timestamp |-> t, event_type |-> "transmission_end",
                       data |-> s1.objs[obj]]
             s2 == add_event(s1, event)
         IN create_task([s2 EXCEPT !.active_transmissions = ActiveDel(@, key)])
    ELSE create_task(s)

end_transmission(s, key, duration, t) ==
    IF key \in ActiveKeys(s)
    THEN LET obj == s.active_transmissions[ActiveIndex(s, key)].obj
             s1 == [s EXCEPT !.objs[obj].active = FALSE, !.objs[obj].duration = duration]
             event == [timestamp |-> t, event_type |-> "transmission_end",
                       data |-> s1.objs[obj]]
             s2 == add_event(s1, event)
         IN create_task([s2 EXCEPT !.active_transmissions = ActiveDel(@, key)])
    ELSE s

RECURSIVE EndKeys(_, _, _)
EndKeys(s, keys, t) ==
    IF keys = << >> THEN s ELSE EndKeys(end_transmission(s, Head(keys), 0, t), Tail(keys), t)

end_transmission_by_mode(s, mode, t) ==
    LET items == SelectSeq(s.active_transmissions, LAMBDA it : s.objs[it.obj].mode = mode)
        keys_to_remove == [i \in DOMAIN items |-> items[i].key]
    IN EndKeys(s, keys_to_remove, t)

\* A faulty clear_all_transmissions: the records of the mode left stay active
clear_no_transmissions(s) == s

clear_all_transmissions(s) ==
    IF Len(s.active_transmissions) > 0 THEN [s EXCEPT !.active_transmissions = << >>] ELSE s

\* ---------------------------------------------------------------- accessors
get_recent_calls(s, limit) ==
    LET calls == Take(Reverse(s.recent_calls), limit)
    IN [i \in DOMAIN calls |-> s.objs[calls[i]]]

get_events(s, limit) == Take(Reverse(s.events), limit)

get_active_transmissions(s) ==
    [i \in DOMAIN s.active_transmissions |-> s.objs[s.active_transmissions[i].obj]]

\* '-' in net, for the network names that occur
HasHyphen(net) ==
    net \in {"DMR-MMDVM", "DMR-HBlink4", "DMR-Unknown", "YSF-Reflector", "P25-Reflector"}

get_status(s) ==
    [status |-> s.status,
     enabled_networks |-> {net \in DOMAIN s.status.networks : ~HasHyphen(net)},
     active_transmissions |-> Len(s.active_transmissions),
     total_calls_today |-> s.stats.total_calls_today,
     calls_by_mode |-> s.stats.calls_by_mode,
     active_users |-> Cardinality(s.stats.active_users)]

\* The message broadcast_status_update builds (state.py:285-292).  Its hash is
\* modelled by the message itself: two messages hash alike iff they are equal.
StateUpdateMessage(s) ==
    [type |-> "state_update",
     status |-> get_status(s),
     active_transmissions |-> get_active_transmissions(s),
     recent_calls |-> get_recent_calls(s, RecentCallsLimit),
     events |-> get_events(s, EventsLimit)]

\* ----------------------------------------------------- applying an entry
RxEvents == {"dmr_rx", "dstar_rx", "ysf_rx", "p25_rx", "nxdn_rx", "fm_rx"}
EndEvents == {"dmr_end", "dstar_end", "ysf_end", "p25_end", "nxdn_end"}

\* LogMonitor.process_entry: a parsed entry of the live tail, applied at time t
process_entry(s, entry, t) ==
    IF entry.data = EmptyDict THEN s
    ELSE
    LET data == entry.data
        event_type == DictGet(data, "event", None)
    IN CASE event_type = "mode_change" ->
              LET mode == DictGet(data, "mode", "IDLE")
                  s1 == update_mode(s, mode, t)
              IN IF mode = "IDLE" THEN clear_all_transmissions(s1) ELSE s1
         [] event_type = "network_connected" ->
              update_network_status(s, data.network, PyTrue, None, t)
         [] event_type = "network_disconnected" ->
              update_network_status(s, data.network, PyFalse, None, t)
         [] event_type = "ysf_reflector_linked" ->
              update_network_status(s, "YSF Network", PyTrue,
                                    DictGet(data, "reflector", "Unknown"), t)
         [] event_type = "ysf_network_disconnected" ->
              update_network_status(s, "YSF Network", PyFalse, None, t)
         [] event_type = "p25_reflector_linked" ->
              update_network_status(s, "Network", PyTrue,
                                    DictGet(data, "reflector", "Unknown"), t)
         [] event_type = "dmr_mmdvm_connected" ->
              update_network_status(s, "DMR-MMDVM", PyTrue, None, t)
         [] event_type = "dmr_network_connected" ->
              LET network == DictGet(data, "network", "Unknown")
              IN update_network_status(
                     update_network_status(s, "DMR-" \o network, PyTrue, None, t),
                     "DMR", PyTrue, None, t)
         [] event_type = "dmr_network_disconnected" ->
              LET network == DictGet(data, "network", "Unknown")
              IN update_network_status(
                     update_network_status(s, "DMR-" \o network, PyFalse, None, t),
                     "DMR", PyFalse, None, t)
         [] event_type \in RxEvents ->
              add_transmission(s, Transmission(entry.timestamp,
                                               DictGet(data, "mode", "Unknown"),
                                               DictGet(data, "source", "Unknown"),
                                               DictGet(data, "destination", "Unknown"),
                                               DictGet(data, "slot", 0),
                                               DictGet(data, "network", "")))
         [] event_type \in EndEvents ->
              LET mode == DictGet(data, "mode", None)
              IN IF Truthy(mode) THEN end_transmission_by_mode(s, mode, t) ELSE s
         [] event_type = "modem_info" ->
              [s EXCEPT !.status.modem_connected = TRUE,
                        !.status.modem_description = DictGet(data, "description", "")]
         [] OTHER -> s

\* LogMonitor._process_state_entry: an entry of the backfill scan, applied at time t.
\* Gives the state store, the targets and whether the entry resolved one.
process_state_entry(s, state_to_find, entry, t) ==
    LET data == entry.data
        event_type == DictGet(data, "event", None)
        unfound(k) == ~DictGet(state_to_find, k, FALSE)
        keep == [s |-> s, state_to_find |-> state_to_find, found |-> FALSE]
        got(s1, k) == [s |-> s1, state_to_find |-> DictSet(state_to_find, k, TRUE),
                       found |-> TRUE]
    IN IF data = EmptyDict THEN keep
       ELSE
       CASE event_type = "mode_change" /\ unfound("current_mode") ->
              got(update_mode(s, DictGet(data, "mode", "IDLE"), t), "current_mode")
         [] event_type = "dmr_mmdvm_connected" /\ unfound("dmr_mmdvm_connection") ->
              got(update_network_status(s, "DMR-MMDVM", PyTrue, None, t),
                  "dmr_mmdvm_connection")
         [] event_type = "dmr_network_connected" /\ unfound("dmr_network_connection") ->
              LET network == DictGet(data, "network", "Unknown")
              IN got(update_network_status(
                         update_network_status(s, "DMR-" \o network, PyTrue, None, t),
                         "DMR", PyTrue, None, t),
                     "dmr_network_connection")
         [] event_type = "dmr_network_disconnected" /\ unfound("dmr_network_connection") ->
              LET network == DictGet(data, "network", "Unknown")
              IN got(update_network_status(
                         update_network_status(s, "DMR-" \o network, PyFalse, None, t),
                         "DMR", PyFalse, None, t),
                     "dmr_network_connection")
         [] event_type = "p25_reflector_linked" /\ unfound("p25_reflector") ->
              got(update_network_status(s, "Network", PyTrue,
                                        DictGet(data, "reflector", "Unknown"), t),
                  "p25_reflector")
         [] event_type = "ysf_reflector_linked" /\ unfound("ysf_reflector") ->
              got(update_network_status(s, "YSF Network", PyTrue,
                                        DictGet(data, "reflector", "Unknown"), t),
                  "ysf_reflector")
         [] event_type = "ysf_network_disconnected" /\ unfound("ysf_reflector") ->
              got(update_network_status(s, "YSF Network", PyFalse, None, t), "ysf_reflector")
         [] OTHER -> keep

\* LogMonitor._mark_unknown_state
mark_unknown_state(s, unfound_items, t) ==
    LET s1 == IF "ysf_reflector" \in unfound_items
              THEN update_network_status(s, "YSF-Reflector", "unknown", None, t) ELSE s
    IN IF "p25_reflector" \in unfound_items
       THEN update_network_status(s1, "P25-Reflector", "unknown", None, t) ELSE s1

\* ------------------------------------------------------------------- state
VARIABLES
    state,      \* the DashboardState singleton (state.py:372)
    mon,        \* the LogMonitor objects of monitor_manager.monitors, by name
    fs,         \* the log directory: path -> the lines of the file
    now,        \* the wall clock
    today,      \* the UTC date, as a day number
    ready,      \* the event loop's queue of runnable tasks, in order
    cur,        \* the task the event loop is running, or Idle
    waiting,    \* broadcast tasks suspended in a send_json
    sockets,    \* per WebSocket ever accepted: is it open, and what it was sent
    appended,   \* what the producers did since the start: lines written, truncations
    procs       \* config_reader's process check: its cache, the process table, the last call

vars == <<state, mon, fs, now, today, ready, cur, waiting, sockets, appended, procs>>

Idle == [kind |-> "idle"]
MonitorTask(name) == [kind |-> "monitor", name |-> name]
BroadcastTask == [kind |-> "broadcast", pc |-> "start"]

\* A dated log file <root>-yyyy-mm-dd.log
LogPath(root, date) == [root |-> root, dated |-> TRUE, date |-> date]
Exists(path) == path \in DOMAIN fs
Size(path) == Len(fs[path])
\* re.sub(r'\d{4}-\d{2}-\d{2}', date_str, name): the same file of another day
WithDate(path, date) == IF path.dated THEN [path EXCEPT !.date = date] ELSE path

\* LogMonitor.__init__
NewLogMonitor(name, path) ==
    [name |-> name, path |-> path, parser |-> get_parser(ParserType(name)),
     last_position |-> 0, running |-> FALSE,
     pc |-> "start", days_back |-> 0, state_to_find |-> EmptyDict, found_count |-> 0,
     log_file |-> path, lines |-> << >>,
     \* what the running scan or poll did: whether it found the file smaller than the
     \* cursor, the seek position of its read (-1: no read), the lines it read, the
     \* lines it gave to parse_line, the broadcast tasks it created, the days whose
     \* file the backfill read, whether a poll ever found the file missing
     reset |-> FALSE, read_from |-> -1, new_lines |-> << >>, fed |-> << >>,
     spawned |-> 0, scanned |-> << >>, missed |-> FALSE, stopped |-> FALSE]

\* The tasks the running step created, handed to the loop (asyncio.create_task)
Created(s) == [i \in 1..s.created |-> BroadcastTask]
Flushed(s) == [s EXCEPT !.created = 0]

\* datetime.now() of a step: the clock may have moved on since the last step
Clock == {t \in {now, now + 1} : t <= MaxClock}

\* ----------------------------------------------------------- event loop
\* The loop takes the next runnable task
RunNext ==
    /\ cur = Idle
    /\ ready # << >>
    /\ cur' = Head(ready)
    /\ ready' = Tail(ready)
    /\ UNCHANGED <<state, mon, fs, now, today, waiting, sockets, appended, procs>>

\* A monitor's timer or file operation completes: the monitor is runnable again
WakePc(pc) ==
    CASE pc = "bf_wait_open" -> "bf_read"
      [] pc = "bf_wait_close" -> "bf_day"
      [] pc = "tail_wait_read" -> "tail_read"
      [] pc = "tail_wait_close" -> "tail_lines"
      [] pc = "tail_sleep" -> "tail_poll"

WakeMonitor(m) ==
    /\ cur = Idle
    /\ mon[m].pc \in {"bf_wait_open", "bf_wait_close", "tail_wait_read", "tail_wait_close",
                      "tail_sleep"}
    /\ mon' = [mon EXCEPT ![m].pc = WakePc(@)]
    /\ ready' = Append(ready, MonitorTask(m))
    /\ UNCHANGED <<state, fs, now, today, cur, waiting, sockets, appended, procs>>

\* ------------------------------------------------------- startup backfill
\* A faulty test: the walk never sees that it is done
AllFoundNever(state_to_find) == FALSE

\* all(state_to_find.values()) (monitor.py:83, 176)
AllFound(state_to_find) == \A k \in DOMAIN state_to_find : state_to_find[k]

\* LogMonitor.start, to the first iteration of parse_recent_entries (monitor.py:37-48, 77-78)
Start(m) ==
    /\ cur = MonitorTask(m)
    /\ mon[m].pc = "start"
    /\ IF ~Exists(mon[m].path)
       THEN /\ mon' = [mon EXCEPT ![m].pc = "returned"]
            /\ cur' = Idle
            /\ UNCHANGED state
       ELSE /\ mon' = [mon EXCEPT ![m].running = TRUE,
                                  ![m].state_to_find = [k \in get_state_targets(m) |-> FALSE],
                                  ![m].found_count = 0,
                                  ![m].days_back = 0,
                                  ![m].pc = "bf_day"]
            /\ state' = [state EXCEPT !.suppress_broadcasts = TRUE]
            /\ UNCHANGED cur
    /\ UNCHANGED <<fs, now, today, ready, waiting, sockets, appended, procs>>

\* A faulty walk: a day whose file is missing is not passed over
BackfillDay_stay(m) ==
    /\ cur = MonitorTask(m)
    /\ mon[m].pc = "bf_day"
    /\ LET me == mon[m]
           log_file == WithDate(me.path, today - me.days_back)
       IN IF me.days_back >= ScanDays \/ AllFound(me.state_to_find)
          THEN /\ mon' = [mon EXCEPT ![m].pc = "bf_end"]
               /\ UNCHANGED cur
          ELSE IF ~Exists(log_file)
          THEN /\ mon' = mon
               /\ UNCHANGED cur
          ELSE /\ mon' = [mon EXCEPT ![m].log_file = log_file, ![m].pc = "bf_wait_open"]
               /\ cur' = Idle
    /\ UNCHANGED <<state, fs, now, today, ready, waiting, sockets, appended, procs>>

\* One iteration of `for days_back in range(14)` up to the open of the day's file
\* (monitor.py:81-101)
BackfillDay(m) ==
    /\ cur = MonitorTask(m)
    /\ mon[m].pc = "bf_day"
    /\ LET me == mon[m]
           log_file == WithDate(me.path, today - me.days_back)
       IN IF me.days_back >= ScanDays \/ AllFound(me.state_to_find)
          THEN /\ mon' = [mon EXCEPT ![m].pc = "bf_end"]
               /\ UNCHANGED cur
          ELSE IF ~Exists(log_file)
          THEN /\ mon' = [mon EXCEPT ![m].days_back = @ + 1]
               /\ UNCHANGED cur
          ELSE /\ mon' = [mon EXCEPT ![m].log_file = log_file, ![m].pc = "bf_wait_open"]
               /\ cur' = Idle
    /\ UNCHANGED <<state, fs, now, today, ready, waiting, sockets, appended, procs>>

\* f.readlines() over the writes from a position to the end of the file: text up to a
\* newline is one line, and text after the last newline is a last line as well
\* (monitor.py:153, 309-310)
readlines(writes) ==
    LET begins == SelectSeq([i \in 1..Len(writes) |-> i],
                            LAMBDA i : ~(/\ i > 1
                                         /\ "rest" \in DOMAIN writes[i]
                                         /\ "cut" \in DOMAIN writes[i - 1]))
    IN [k \in 1..Len(begins) |->
          LET i == begins[k]
          IN IF "cut" \in DOMAIN writes[i] /\ i < Len(writes) THEN writes[i].cut
             ELSE writes[i]]

\* _scan_for_state: the file is read and its last lookback_lines lines reversed
\* (monitor.py:151-168)
BackfillRead(m) ==
    /\ cur = MonitorTask(m)
    /\ mon[m].pc = "bf_read"
    /\ LET me == mon[m]
       IN IF ~Exists(me.log_file)
          THEN \* open raises: _scan_for_state returns 0, the walk goes on
               /\ mon' = [mon EXCEPT ![m].days_back = @ + 1, ![m].pc = "bf_day"]
               /\ UNCHANGED cur
          ELSE IF fs[me.log_file] = << >>
          THEN \* return 0 through the `async with`: the close is awaited
               /\ mon' = [mon EXCEPT ![m].scanned = Append(@, me.days_back),
                                     ![m].days_back = @ + 1,
                                     ![m].pc = "bf_wait_close"]
               /\ cur' = Idle
          ELSE /\ mon' = [mon EXCEPT ![m].scanned = Append(@, me.days_back),
                                     ![m].lines = Reverse(LastN(readlines(fs[me.log_file]),
                                                                lookback_lines)),
                                     ![m].pc = "bf_lines"]
               /\ UNCHANGED cur
    /\ UNCHANGED <<state, fs, now, today, ready, waiting, sockets, appended, procs>>

\* One turn of `for line in lines` of _scan_for_state (monitor.py:170-189)
BackfillLine(m) ==
    /\ cur = MonitorTask(m)
    /\ mon[m].pc = "bf_lines"
    /\ LET me == mon[m]
           line == Head(me.lines)
           leave == /\ mon' = [mon EXCEPT ![m].lines = << >>,
                                          ![m].days_back = @ + 1,
                                          ![m].pc = "bf_wait_close"]
                    /\ cur' = Idle
                    /\ UNCHANGED <<state, ready, now>>
           skip == /\ mon' = [mon EXCEPT ![m].lines = Tail(@)]
                   /\ UNCHANGED <<state, ready, now, cur>>
       IN IF me.lines = << >> THEN leave
          ELSE IF IsBlank(line) THEN skip
          ELSE IF AllFound(me.state_to_find) THEN leave
          ELSE IF me.parser = None THEN skip
          ELSE \E t \in Clock :
                 LET entry == parse_line(me.parser, line, t)
                     r == process_state_entry(state, me.state_to_find, entry, t)
                 IN IF entry = NoEntry
                    THEN /\ mon' = [mon EXCEPT ![m].lines = Tail(@),
                                               ![m].fed = Append(@, line)]
                         /\ now' = t
                         /\ UNCHANGED <<state, ready, cur>>
                    ELSE /\ mon' = [mon EXCEPT ![m].lines = Tail(@),
                                               ![m].fed = Append(@, line),
                                               ![m].state_to_find = r.state_to_find,
                                               ![m].found_count =
                                                   IF r.found THEN @ + 1 ELSE @]
                         /\ state' = Flushed(r.s)
                         /\ ready' = ready \o Created(r.s)
                         /\ now' = t
                         /\ UNCHANGED cur
    /\ UNCHANGED <<fs, today, waiting, sockets, appended, procs>>

\* The end of parse_recent_entries and of the startup in start (monitor.py:103-109, 49-58)
BackfillEnd(m) ==
    /\ cur = MonitorTask(m)
    /\ mon[m].pc = "bf_end"
    /\ \E t \in Clock :
         LET me == mon[m]
             unfound == {k \in DOMAIN me.state_to_find : ~me.state_to_find[k]}
             s1 == IF unfound # {} THEN mark_unknown_state(state, unfound, t) ELSE state
         IN /\ state' = [s1 EXCEPT !.suppress_broadcasts = FALSE]
            /\ mon' = [mon EXCEPT ![m].last_position =
                                      IF Exists(me.path) THEN Size(me.path) ELSE 0,
                                  ![m].pc = "tail_poll"]
            /\ now' = t
    /\ UNCHANGED <<fs, today, ready, cur, waiting, sockets, appended, procs>>

\* ------------------------------------------------------------------- tail
(***************************************************************************)
(* A file's size and the read cursor count the producer's writes: a write  *)
(* is a whole line, or one of the two parts of a line, and one unit long.  *)
(***************************************************************************)
\* A faulty check: the switch to today's path does not ask whether the file exists
check_log_rotation_blind(me) ==
    LET new_path == WithDate(me.path, today)
    IN IF ~me.path.dated THEN me
       ELSE IF me.path.date = today THEN me
       ELSE [me EXCEPT !.path = new_path, !.last_position = 0]

\* LogMonitor._check_log_rotation: the monitor after the check
check_log_rotation(me) ==
    LET new_path == WithDate(me.path, today)
    IN IF ~me.path.dated THEN me
       ELSE IF me.path.date = today THEN me
       ELSE IF Exists(new_path) THEN [me EXCEPT !.path = new_path, !.last_position = 0]
       ELSE me

\* A faulty reset: the cursor is set back to the new size, not to the start
reset_to_size(last_position, current_size) ==
    IF current_size < last_position THEN current_size ELSE last_position

\* The cursor after `if current_size < self.last_position` (monitor.py:297-302)
reset_position(last_position, current_size) ==
    IF current_size < last_position THEN 0 ELSE last_position

\* The cursor after seek, readlines and tell on a file of `size` (monitor.py:308-311)
position_after_read(last_position, size) ==
    IF size > last_position THEN size ELSE last_position

\* A faulty poll: a missing file rewinds the cursor
Poll_rewind(m) ==
    /\ cur = MonitorTask(m)
    /\ mon[m].pc = "tail_poll"
    /\ \E due \in BOOLEAN :
         LET me0 == [mon[m] EXCEPT !.reset = FALSE, !.read_from = -1,
                                   !.new_lines = << >>, !.fed = << >>, !.spawned = 0]
             me == IF due THEN check_log_rotation(me0) ELSE me0
             sleep(me1) == /\ mon' = [mon EXCEPT ![m] = [me1 EXCEPT !.pc = "tail_sleep"]]
                           /\ cur' = Idle
         IN IF ~me.running
            THEN /\ mon' = [mon EXCEPT ![m].pc = "returned"]
                 /\ cur' = Idle
            ELSE IF ~Exists(me.path) THEN sleep([me EXCEPT !.missed = TRUE, !.last_position = 0])
            ELSE LET current_size == Size(me.path)
                     me1 == [me EXCEPT !.last_position = reset_position(@, current_size),
                                       !.reset = current_size < me.last_position]
                 IN IF current_size = me1.last_position THEN sleep(me1)
                    ELSE /\ mon' = [mon EXCEPT ![m] = [me1 EXCEPT !.pc = "tail_wait_read"]]
                         /\ cur' = Idle
    /\ UNCHANGED <<state, fs, now, today, ready, waiting, sockets, appended, procs>>

\* check_for_updates up to the open of the file (monitor.py:283-308); `due` says
\* whether more than 60 s have passed since the last rotation check
Poll(m) ==
    /\ cur = MonitorTask(m)
    /\ mon[m].pc = "tail_poll"
    /\ \E due \in BOOLEAN :
         LET me0 == [mon[m] EXCEPT !.reset = FALSE, !.read_from = -1,
                                   !.new_lines = << >>, !.fed = << >>, !.spawned = 0]
             me == IF due THEN check_log_rotation(me0) ELSE me0
             sleep(me1) == /\ mon' = [mon EXCEPT ![m] = [me1 EXCEPT !.pc = "tail_sleep"]]
                           /\ cur' = Idle
         IN IF ~me.running
            THEN /\ mon' = [mon EXCEPT ![m].pc = "returned"]
                 /\ cur' = Idle
            ELSE IF ~Exists(me.path) THEN sleep([me EXCEPT !.missed = TRUE])
            ELSE LET current_size == Size(me.path)
                     me1 == [me EXCEPT !.last_position = reset_position(@, current_size),
                                       !.reset = current_size < me.last_position]
                 IN IF current_size = me1.last_position THEN sleep(me1)
                    ELSE /\ mon' = [mon EXCEPT ![m] = [me1 EXCEPT !.pc = "tail_wait_read"]]
                         /\ cur' = Idle
    /\ UNCHANGED <<state, fs, now, today, ready, waiting, sockets, appended, procs>>

\* The read of the new data (monitor.py:308-311); the close of the file is awaited
Read(m) ==
    /\ cur = MonitorTask(m)
    /\ mon[m].pc = "tail_read"
    /\ LET me == mon[m]
       IN IF ~Exists(me.path)
          THEN \* open raises, check_for_updates logs the error and returns
               /\ mon' = [mon EXCEPT ![m].pc = "tail_sleep"]
          ELSE /\ mon' = [mon EXCEPT
                    ![m].lines = readlines(SubSeq(fs[me.path], me.last_position + 1,
                                                  Size(me.path))),
                    ![m].new_lines = readlines(SubSeq(fs[me.path], me.last_position + 1,
                                                      Size(me.path))),
                    ![m].read_from = me.last_position,
                    ![m].last_position = position_after_read(@, Size(me.path)),
                    ![m].pc = "tail_wait_close"]
    /\ cur' = Idle
    /\ UNCHANGED <<state, fs, now, today, ready, waiting, sockets, appended, procs>>

\* One turn of `for line in new_lines` of check_for_updates (monitor.py:313-335)
TailLine(m) ==
    /\ cur = MonitorTask(m)
    /\ mon[m].pc = "tail_lines"
    /\ LET me == mon[m]
           line == Head(me.lines)
           leave == /\ mon' = [mon EXCEPT ![m].lines = << >>, ![m].pc = "tail_sleep"]
                    /\ cur' = Idle
                    /\ UNCHANGED <<state, ready, now>>
           skip == /\ mon' = [mon EXCEPT ![m].lines = Tail(@)]
                   /\ UNCHANGED <<state, ready, now, cur>>
       IN IF me.lines = << >> THEN leave
          ELSE IF IsBlank(line) THEN skip
          ELSE IF LogsToBuffer(me.name)
          THEN \* state.add_log_entry does not exist: AttributeError, caught by the
               \* `except` of check_for_updates, which ends the poll
               leave
          ELSE IF me.parser = None THEN skip
          ELSE \E t \in Clock :
                 LET entry == parse_line(me.parser, line, t)
                     s1 == IF entry = NoEntry THEN state ELSE process_entry(state, entry, t)
                 IN /\ mon' = [mon EXCEPT ![m].lines = Tail(@), ![m].fed = Append(@, line),
                                          ![m].spawned = @ + s1.created]
                    /\ state' = Flushed(s1)
                    /\ ready' = ready \o Created(s1)
                    /\ now' = t
                    /\ UNCHANGED cur
    /\ UNCHANGED <<fs, today, waiting, sockets, appended, procs>>

\* -------------------------------------------------------------- broadcast
Orders(S) ==
    {f \in [1..Cardinality(S) -> S] : \A i, j \in 1..Cardinality(S) : f[i] = f[j] => i = j}

\* broadcast_status_update up to the loop over the clients (state.py:275-309)
BroadcastStart ==
    /\ cur = BroadcastTask
    /\ LET message == StateUpdateMessage(state)
       IN IF \/ state.suppress_broadcasts
             \/ state.websocket_clients = {}
             \/ <<message>> = state.last_broadcast_hash
          THEN /\ cur' = Idle
               /\ UNCHANGED state
          ELSE /\ state' = [state EXCEPT !.last_broadcast_hash = <<message>>]
               /\ \E todo \in Orders(state.websocket_clients) :
                    cur' = [kind |-> "broadcast", pc |-> "send", message |-> message,
                            copy |-> state.websocket_clients, todo |-> todo,
                            disconnected |-> << >>]
    /\ UNCHANGED <<mon, fs, now, today, ready, waiting, sockets, appended, procs>>

\* A faulty send: a send that raises ends the loop over the clients
send_json_abort(task, ok) ==
    IF ok THEN [task EXCEPT !.todo = Tail(@)]
    ELSE [task EXCEPT !.todo = << >>, !.disconnected = Append(@, Head(task.todo))]

\* The task after `await client.send_json(message)` in its try (state.py:309-314)
send_json(task, ok) ==
    [task EXCEPT !.todo = Tail(@),
                 !.disconnected = IF ok THEN @ ELSE Append(@, Head(task.todo))]

\* One send; the task goes on at once or is suspended in the send
BroadcastSend ==
    /\ cur.kind = "broadcast"
    /\ cur.pc = "send"
    /\ cur.todo # << >>
    /\ LET client == Head(cur.todo)
           ok == sockets[client].open
           task == send_json(cur, ok)
       IN /\ sockets' = IF ok THEN [sockets EXCEPT ![client].got = Append(@, cur.message)]
                        ELSE sockets
          /\ \/ cur' = task /\ UNCHANGED waiting
             \/ cur' = Idle /\ waiting' = Append(waiting, task)
    /\ UNCHANGED <<state, mon, fs, now, today, ready, appended, procs>>

\* The send a task was suspended in completes
WakeBroadcast(i) ==
    /\ cur = Idle
    /\ i \in DOMAIN waiting
    /\ ready' = Append(ready, waiting[i])
    /\ waiting' = [j \in 1..(Len(waiting) - 1) |-> IF j < i THEN waiting[j] ELSE waiting[j + 1]]
    /\ UNCHANGED <<state, mon, fs, now, today, cur, sockets, appended, procs>>

\* The clients whose send failed are dropped (state.py:316-318)
discard_disconnected(clients, disconnected) ==
    clients \ {disconnected[i] : i \in DOMAIN disconnected}

BroadcastFinish ==
    /\ cur.kind = "broadcast"
    /\ cur.pc = "send"
    /\ cur.todo = << >>
    /\ state' = [state EXCEPT !.websocket_clients = discard_disconnected(@, cur.disconnected)]
    /\ cur' = Idle
    /\ UNCHANGED <<mon, fs, now, today, ready, waiting, sockets, appended, procs>>

\* ------------------------------------------------------- debounced broadcast
\* The task of debounced_broadcast (state.py:327-330), at its start or in its sleep
DebouncedTask(pc) == [kind |-> "debounced", pc |-> pc]

\* The task _broadcast_task names: debounced_broadcast, also while it runs
\* broadcast_status_update
IsDebounced(task) ==
    \/ task.kind = "debounced"
    \/ task.kind = "broadcast" /\ "debounced" \in DOMAIN task

\* _broadcast_task.cancel() on tasks that are runnable or suspended: CancelledError is
\* raised in the task at its await; it is no Exception, no `except Exception` catches it
\* and the task ends there
cancel(tasks) == SelectSeq(tasks, LAMBDA task : ~IsDebounced(task))

\* DashboardState.schedule_broadcast, called while no task runs (state.py:320-336)
ScheduleBroadcast ==
    /\ cur = Idle
    /\ IF state.broadcast_pending
       THEN UNCHANGED <<state, ready, waiting>>
       ELSE /\ state' = [state EXCEPT !.broadcast_pending = TRUE]
            /\ ready' = Append(cancel(ready), DebouncedTask("start"))
            /\ waiting' = cancel(waiting)
    /\ UNCHANGED <<mon, fs, now, today, cur, sockets, appended, procs>>

\* debounced_broadcast up to `await asyncio.sleep(0.5)` (state.py:327-328)
DebouncedSleep ==
    /\ cur = DebouncedTask("start")
    /\ waiting' = Append(waiting, DebouncedTask("sleep"))
    /\ cur' = Idle
    /\ UNCHANGED <<state, mon, fs, now, today, ready, sockets, appended, procs>>

\* debounced_broadcast after its sleep: the flag is cleared and broadcast_status_update
\* runs in the same task up to the loop over the clients (state.py:329-330, 275-309)
DebouncedBroadcast ==
    /\ cur = DebouncedTask("sleep")
    /\ LET s1 == [state EXCEPT !.broadcast_pending = FALSE]
           message == StateUpdateMessage(s1)
       IN IF \/ s1.suppress_broadcasts
             \/ s1.websocket_clients = {}
             \/ <<message>> = s1.last_broadcast_hash
          THEN /\ cur' = Idle
               /\ state' = s1
          ELSE /\ state' = [s1 EXCEPT !.last_broadcast_hash = <<message>>]
               /\ \E todo \in Orders(s1.websocket_clients) :
                    cur' = [kind |-> "broadcast", pc |-> "send", message |-> message,
                            copy |-> s1.websocket_clients, todo |-> todo,
                            disconnected |-> << >>, debounced |-> TRUE]
    /\ UNCHANGED <<mon, fs, now, today, ready, waiting, sockets, appended, procs>>

\* ------------------------------------------------------------------ clients
\* websocket_endpoint accepts a client (server.py:86-87)
Subscribe ==
    /\ cur = Idle
    /\ Cardinality(DOMAIN sockets) < MaxClients
    /\ LET client == Cardinality(DOMAIN sockets) + 1
       IN /\ sockets' = DictSet(sockets, client, [open |-> TRUE, got |-> << >>])
          /\ state' = [state EXCEPT !.websocket_clients = @ \cup {client}]
    /\ UNCHANGED <<mon, fs, now, today, ready, cur, waiting, appended, procs>>

\* The peer closes its connection: a send to it raises from now on
SocketCloses(client) ==
    /\ client \in DOMAIN sockets
    /\ sockets[client].open
    /\ sockets' = [sockets EXCEPT ![client].open = FALSE]
    /\ UNCHANGED <<state, mon, fs, now, today, ready, cur, waiting, appended, procs>>

\* websocket_endpoint sees the disconnect and discards the client (server.py:106-113)
Unsubscribe(client) ==
    /\ cur = Idle
    /\ client \in DOMAIN sockets
    /\ ~sockets[client].open
    /\ client \in state.websocket_clients
    /\ state' = [state EXCEPT !.websocket_clients = @ \ {client}]
    /\ UNCHANGED <<mon, fs, now, today, ready, cur, waiting, sockets, appended, procs>>

\* ------------------------------------------------------------ config overlay
\* The update_process_status task (run_dashboard.py:95-109)
OverlayTask == [kind |-> "overlay"]

\* What ConfigManager.get_expected_state may return: MMDVMHost running or not, its DMR
\* network enabled or not, the DMR gateway's entry
ExpectedStates ==
    {[mmdvm_running |-> running, enabled_modes |-> <<"DMR">>, enabled_networks |-> networks,
      gateways |-> [dmr |-> [is_running |-> TRUE, enabled |-> TRUE, networks |-> EmptyDict]],
      info |-> EmptyDict] : running \in BOOLEAN, networks \in {{}, {"DMR"}}}

\* asyncio.sleep(5) of the overlay task is over
WakeOverlay ==
    /\ cur = Idle
    /\ \A i \in DOMAIN ready : ready[i] # OverlayTask
    /\ ready' = Append(ready, OverlayTask)
    /\ UNCHANGED <<state, mon, fs, now, today, cur, waiting, sockets, appended, procs>>

\* One round of update_process_status, get_expected_state returning one of `expected`
OverlayFrom(expected) ==
    /\ cur = OverlayTask
    /\ \E expected_state \in expected : \E t \in Clock :
         LET s1 == update_expected_state(state, expected_state, t)
         IN /\ state' = Flushed(s1)
            /\ ready' = ready \o Created(s1)
            /\ now' = t
    /\ cur' = Idle
    /\ UNCHANGED <<mon, fs, today, waiting, sockets, appended, procs>>

Overlay == OverlayFrom(ExpectedStates)

\* The processes and the configuration stay as they are: MMDVMHost running, its DMR
\* network enabled
SteadyOverlay ==
    OverlayFrom({e \in ExpectedStates : e.mmdvm_running /\ e.enabled_networks = {"DMR"}})

\* ---------------------------------------------------------------- producers
\* What MMDVMHost writes at time ts
HostLines(ts) ==
    {ModeSetLine("IDLE", ts), ModeSetLine("DMR", ts),
     DmrHeaderLine(1, "N0CALL", "31665", ts), DmrEndLine(1, "N0CALL", "31665", ts),
     YsfHeaderLine("N0CALL", "0", ts),
     NetConnectedLine("DMR", ts), NetDisconnectedLine("DMR", ts),
     OtherLine(ts)}

\* What a producer writes when only the reading of its file matters
PlainLines(ts) == {ModeSetLine("DMR", ts), OtherLine(ts), BlankLine}

\* The producer of monitor m's log writes a line to today's file
Produce(m, line) ==
    /\ cur = Idle
    /\ appended.lines < MaxAppend
    /\ LET path == WithDate(mon[m].path, today)
       IN fs' = IF Exists(path) THEN [fs EXCEPT ![path] = Append(@, line)]
                ELSE DictSet(fs, path, <<line>>)
    /\ appended' = [appended EXCEPT !.lines = @ + 1]
    /\ UNCHANGED <<state, mon, now, today, ready, cur, waiting, sockets, procs>>

ProduceHost(m) == \E line \in HostLines(now) : Produce(m, line)
ProducePlain(m) == \E line \in PlainLines(now) : Produce(m, line)

\* The host writes the line of one event again and again
RepeatedLine == ModeSetLine("DMR", 0)
ProduceRepeat(m) == appended.lines < MaxRepeat /\ Produce(m, RepeatedLine)

\* The producer has written the first part of a line and not yet the rest
Unterminated(m) ==
    /\ Exists(mon[m].path)
    /\ Size(mon[m].path) > 0
    /\ "cut" \in DOMAIN fs[mon[m].path][Size(mon[m].path)]

\* The producer writes a line in two writes
ProduceCut(m) == ~Unterminated(m) /\ Produce(m, HeadPiece(RepeatedLine))
ProduceRest(m) ==
    /\ Unterminated(m)
    /\ Produce(m, TailPiece(fs[mon[m].path][Size(mon[m].path)].cut))

\* The file a monitor reads is truncated in place (logrotate's copytruncate)
Truncate(m) ==
    /\ cur = Idle
    /\ appended.truncs < MaxTruncate
    /\ Exists(mon[m].path)
    /\ Size(mon[m].path) > 0
    /\ fs' = [fs EXCEPT ![mon[m].path] = << >>]
    /\ appended' = [appended EXCEPT !.truncs = @ + 1]
    /\ UNCHANGED <<state, mon, now, today, ready, cur, waiting, sockets, procs>>

\* The file a monitor reads is removed
Remove(m) ==
    /\ cur = Idle
    /\ appended.truncs < MaxTruncate
    /\ Exists(mon[m].path)
    /\ fs' = DictDel(fs, mon[m].path)
    /\ appended' = [appended EXCEPT !.truncs = @ + 1]
    /\ UNCHANGED <<state, mon, now, today, ready, cur, waiting, sockets, procs>>

\* LogMonitor.stop, called by another coroutine (monitor.py:423-426)
Stop(m) ==
    /\ cur = Idle
    /\ ~mon[m].stopped
    /\ mon' = [mon EXCEPT ![m].running = FALSE, ![m].stopped = TRUE]
    /\ UNCHANGED <<state, fs, now, today, ready, cur, waiting, sockets, appended, procs>>

\* Midnight UTC
NewDay ==
    /\ cur = Idle
    /\ today < MaxDay
    /\ today' = today + 1
    /\ UNCHANGED <<state, mon, fs, now, ready, cur, waiting, sockets, appended, procs>>

\* ------------------------------------------------------- process status
\* The process names ConfigManager asks for (config_reader.py:103, 437-441)
ProcessNames == {"mmdvmhost", "DMRGateway", "YSFGateway"}

\* time.time() counts from the epoch, which lies more than the cache window before the
\* program's start at time 0: the initial _cache_timestamp = 0 of the code is this time
Epoch == -1

\* config_reader's module globals at import (config_reader.py:17-18), with the
\* environment: the units systemctl reports active, the commands `ps aux` lists
\* (in lower case), and what the last call of check_all_processes returned
NoProcessCheck ==
    [_process_cache |-> EmptyDict, _cache_timestamp |-> Epoch,
     units |-> {}, ps |-> {}, returned |-> EmptyDict]

\* check_all_processes(process_names) called at current_time; ps_ok is whether the
\* `ps aux` subprocess ran without an exception
check_all_processes(p, process_names, current_time, ps_ok) ==
    IF current_time - p._cache_timestamp < 1
    THEN [p EXCEPT !.returned =
              [name \in process_names |-> DictGet(p._process_cache, name, FALSE)]]
    ELSE LET systemctl_results == [name \in process_names |-> name \in p.units]
             results == [name \in process_names |->
                            IF ps_ok
                            THEN systemctl_results[name] \/ Lower(name) \in p.ps
                            ELSE FALSE]
         IN [p EXCEPT !._process_cache = results,
                      !._cache_timestamp = current_time,
                      !.returned = results]

\* is_process_running(process_name)
is_process_running(p, process_name, current_time, ps_ok) ==
    check_all_processes(p, {process_name}, current_time, ps_ok)

\* A constructor of MMDVMConfig or GatewayConfig asks for its process
\* (config_reader.py:103-104, 235)
IsProcessRunning ==
    /\ \E process_name \in ProcessNames : \E ps_ok \in BOOLEAN :
          procs' = is_process_running(procs, process_name, now, ps_ok)
    /\ UNCHANGED <<state, mon, fs, now, today, ready, cur, waiting, sockets, appended>>

\* ConfigManager.refresh_process_status, with or without an NXDN gateway, or any
\* other caller of the batch check (config_reader.py:434-448)
CheckAllProcesses ==
    /\ \E process_names \in SUBSET ProcessNames \ {{}} : \E ps_ok \in BOOLEAN :
          procs' = check_all_processes(procs, process_names, now, ps_ok)
    /\ UNCHANGED <<state, mon, fs, now, today, ready, cur, waiting, sockets, appended>>

\* A process starts or exits, a unit becomes active or inactive
ProcessChange ==
    /\ \E name \in ProcessNames :
          \/ procs' = [procs EXCEPT !.ps = IF Lower(name) \in @ THEN @ \ {Lower(name)}
                                                               ELSE @ \cup {Lower(name)}]
          \/ procs' = [procs EXCEPT !.units = IF name \in @ THEN @ \ {name}
                                                             ELSE @ \cup {name}]
    /\ UNCHANGED <<state, mon, fs, now, today, ready, cur, waiting, sockets, appended>>

\* A second passes
SecondPasses ==
    /\ now < MaxClock
    /\ now' = now + 1
    /\ UNCHANGED <<state, mon, fs, today, ready, cur, waiting, sockets, appended, procs>>

\* ----------------------------------------------------------- specifications
\* start_monitors and LogMonitorManager.start_all for one log root whose file of
\* day 0 holds `content` (run_dashboard.py:56-85, monitor.py:436-447)
Started(name, content) ==
    /\ state = NewDashboardState(0)
    /\ mon = [n \in {name} |-> NewLogMonitor(name, LogPath(name, 0))]
    /\ fs = [p \in {LogPath(name, 0)} |-> content]
    /\ now = 0
    /\ today = 0
    /\ ready = <<MonitorTask(name)>>
    /\ cur = Idle
    /\ waiting = << >>
    /\ sockets = EmptyDict
    /\ appended = [lines |-> 0, truncs |-> 0]
    /\ procs = NoProcessCheck

HostNames == {"MMDVM", "mmdvmhost"}

Monitors == DOMAIN mon

Loop ==
    \/ RunNext
    \/ \E m \in Monitors : WakeMonitor(m)
    \/ \E m \in Monitors : Start(m)
    \/ \E m \in Monitors : BackfillDay(m)
    \/ \E m \in Monitors : BackfillRead(m)
    \/ \E m \in Monitors : BackfillLine(m)
    \/ \E m \in Monitors : BackfillEnd(m)

Tailing ==
    \/ \E m \in Monitors : Poll(m)
    \/ \E m \in Monitors : Read(m)
    \/ \E m \in Monitors : TailLine(m)

Broadcast ==
    \/ BroadcastStart
    \/ BroadcastSend
    \/ BroadcastFinish
    \/ \E i \in DOMAIN waiting : WakeBroadcast(i)
    \/ Subscribe
    \/ \E c \in DOMAIN sockets : SocketCloses(c)
    \/ \E c \in DOMAIN sockets : Unsubscribe(c)

\* The host's monitor and its producer: the state store as the live tail and the
\* backfill drive it
Init == \E name \in HostNames : Started(name, <<ModeSetLine("IDLE", 0)>>)
Next == Loop \/ Tailing \/ BroadcastStart \/ \E m \in Monitors : ProduceHost(m)
Spec == Init /\ [][Next]_vars

\* A monitor and its file: rotation by date and by truncation, no clients
InitTail == \E name \in HostNames : \E content \in {<< >>, <<OtherLine(0)>>} :
                Started(name, content)
NextTail ==
    \/ Loop
    \/ Tailing
    \/ BroadcastStart
    \/ \E m \in Monitors : ProducePlain(m)
    \/ \E m \in Monitors : Truncate(m)
    \/ NewDay
SpecTail == InitTail /\ [][NextTail]_vars

\* A monitor whose file is removed, before its start or while it is tailing, and
\* written again
NextMissing ==
    \/ Loop
    \/ Tailing
    \/ BroadcastStart
    \/ \E m \in Monitors : ProducePlain(m)
    \/ \E m \in Monitors : Remove(m)
SpecMissing == InitTail /\ [][NextMissing]_vars

\* A monitor that is stopped before its start, during its backfill or while it tails
NextStop ==
    \/ Loop
    \/ Tailing
    \/ BroadcastStart
    \/ \E m \in Monitors : ProducePlain(m)
    \/ \E m \in Monitors : Stop(m)
SpecStop == InitTail /\ [][NextStop]_vars

\* The store and its clients with no monitor configured; handlers call schedule_broadcast
InitDebounce ==
    /\ state = NewDashboardState(0)
    /\ mon = EmptyDict
    /\ fs = EmptyDict
    /\ now = 0
    /\ today = 0
    /\ ready = << >>
    /\ cur = Idle
    /\ waiting = << >>
    /\ sockets = EmptyDict
    /\ appended = [lines |-> 0, truncs |-> 0]
    /\ procs = NoProcessCheck
NextDebounce ==
    \/ RunNext
    \/ ScheduleBroadcast
    \/ DebouncedSleep
    \/ DebouncedBroadcast
    \/ BroadcastSend
    \/ BroadcastFinish
    \/ \E i \in DOMAIN waiting : WakeBroadcast(i)
    \/ Subscribe
    \/ \E c \in DOMAIN sockets : SocketCloses(c)
SpecDebounce == InitDebounce /\ [][NextDebounce]_vars

\* The names MMDVMHost gives its modes in "Mode set to ..." lines: short codes, the name
\* of the [System Fusion] section, and the idle mode in another capitalisation
ModeSpellings == {"DMR", "IDLE", "System Fusion", "Idle"}

\* The host's monitor and a producer of mode changes in every spelling
ProduceSpelling(m) ==
    /\ appended.lines < MaxRepeat
    /\ \E mode \in ModeSpellings : Produce(m, ModeSetLine(mode, 0))
NextModes == Loop \/ Tailing \/ BroadcastStart \/ \E m \in Monitors : ProduceSpelling(m)
SpecModes ==
    /\ \E mode \in ModeSpellings : Started("mmdvmhost", <<ModeSetLine(mode, 0)>>)
    /\ [][NextModes]_vars

\* The host's monitor and a producer of the lines of calls on the two DMR slots and of
\* the return to the idle mode
CallLines ==
    {DmrHeaderLine(1, "N0CALL", "31665", 0), DmrHeaderLine(2, "W1AW", "91", 0),
     DmrEndLine(1, "N0CALL", "31665", 0), ModeSetLine("IDLE", 0)}
ProduceCall(m) == \E line \in CallLines : Produce(m, line)
NextCalls == Loop \/ Tailing \/ BroadcastStart \/ \E m \in Monitors : ProduceCall(m)
SpecCalls == Started("mmdvmhost", <<OtherLine(0)>>) /\ [][NextCalls]_vars

\* The process checks of the configuration readers alone: the monitors stand still
NextProcesses == IsProcessRunning \/ CheckAllProcesses \/ ProcessChange \/ SecondPasses
SpecProcesses == Started("mmdvmhost", <<OtherLine(0)>>) /\ [][NextProcesses]_vars

\* The store after n calls of one YSF station, each begun and ended, their tasks done
RECURSIVE AfterCalls(_)
AfterCalls(n) ==
    IF n = 0 THEN NewDashboardState(0)
    ELSE LET tx == Transmission(0, "YSF", "N0CALL", "0", 0, "")
         IN Flushed(end_transmission(add_transmission(AfterCalls(n - 1), tx), TxKey(tx), 0, 0))

\* The host's monitor, started on a store whose histories are one call short of full
InitHistory ==
    /\ state = AfterCalls(max_recent_calls - 1)
    /\ mon = [n \in {"mmdvmhost"} |-> NewLogMonitor(n, LogPath(n, 0))]
    /\ fs = [path \in {LogPath("mmdvmhost", 0)} |-> <<OtherLine(0)>>]
    /\ now = 0
    /\ today = 0
    /\ ready = <<MonitorTask("mmdvmhost")>>
    /\ cur = Idle
    /\ waiting = << >>
    /\ sockets = EmptyDict
    /\ appended = [lines |-> 0, truncs |-> 0]
    /\ procs = NoProcessCheck
SpecHistory == InitHistory /\ [][NextCalls]_vars

\* The host's monitor and a producer whose writes of a line are whole or in two parts
NextPartial ==
    \/ Loop
    \/ Tailing
    \/ BroadcastStart
    \/ \E m \in Monitors : ~Unterminated(m) /\ ProduceRepeat(m)
    \/ \E m \in Monitors : ProduceCut(m)
    \/ \E m \in Monitors : ProduceRest(m)
SpecPartial == Started("mmdvmhost", <<OtherLine(0)>>) /\ [][NextPartial]_vars

\* The host's monitor, a producer that repeats one event, and the WebSocket clients
InitBroadcast == Started("mmdvmhost", <<OtherLine(0)>>)
NextBroadcast == Loop \/ Tailing \/ Broadcast \/ \E m \in Monitors : ProduceRepeat(m)
SpecBroadcast == InitBroadcast /\ [][NextBroadcast]_vars

\* The startup backfill of one monitor of each kind over the dated files of its log
BackfillNames == {"mmdvmhost", "DMRGateway", "YSFGateway", "P25Gateway"}

\* What the producer of a kind may have written to a file
KindLines(name) ==
    CASE name = "mmdvmhost" -> {ModeSetLine("DMR", 0), ModeSetLine("IDLE", 0), OtherLine(0)}
      [] name = "DMRGateway" ->
            {MmdvmConnectedLine(0), LoginLine("HBlink4", 0), ClosingLine("HBlink4", 0),
             OtherLine(0)}
      [] name = "YSFGateway" ->
            {LinkedToLine("Kansas", 0), DisconnectRequestedLine(0), OtherLine(0)}
      [] name = "P25Gateway" -> {LinkedReflectorLine("3120", 0), OtherLine(0), BlankLine}

\* The line of a kind that resolves a target of its backfill
ResolvingLine(name) ==
    CASE name = "mmdvmhost" -> ModeSetLine("DMR", 0)
      [] name = "DMRGateway" -> MmdvmConnectedLine(0)
      [] name = "YSFGateway" -> LinkedToLine("Kansas", 0)
      [] name = "P25Gateway" -> LinkedReflectorLine("3120", 0)

ContentsUpTo(name, len) == UNION {[1..n -> KindLines(name)] : n \in 0..len}
Contents(name) == ContentsUpTo(name, MaxDayLines)

\* Files of today and of thirteen days ago with any content of up to len lines, and
\* perhaps one of fourteen days ago; the monitor is given the newest
\* (run_dashboard.py:60-81)
BackfillFrom(names, len) ==
    \E name \in names :
    \E days \in (SUBSET {0, ScanDays - 1, ScanDays}) \ {{}} :
    \E files \in [days \ {ScanDays} -> ContentsUpTo(name, len)] :
       LET newest == CHOOSE d \in days : \A e \in days : d <= e
           content(d) == IF d = ScanDays THEN <<ResolvingLine(name)>> ELSE files[d]
       IN /\ state = NewDashboardState(0)
          /\ today = ScanDays
          /\ fs = [p \in {LogPath(name, ScanDays - d) : d \in days} |->
                       content(ScanDays - p.date)]
          /\ mon = [n \in {name} |-> NewLogMonitor(name, LogPath(name, ScanDays - newest))]
          /\ now = 0
          /\ ready = <<MonitorTask(name)>>
          /\ cur = Idle
          /\ waiting = << >>
          /\ sockets = EmptyDict
          /\ appended = [lines |-> 0, truncs |-> 0]
          /\ procs = NoProcessCheck
InitBackfill == BackfillFrom(BackfillNames, MaxDayLines)
NextBackfill == Loop \/ BroadcastStart
SpecBackfill == InitBackfill /\ [][NextBackfill]_vars

\* The host's log of a busy day: a mode line followed by as many other lines as one
\* scan looks back over, or one fewer, and yesterday's file with an older mode line
InitLookback ==
    \E others \in {lookback_lines - 1, lookback_lines} :
       /\ state = NewDashboardState(0)
       /\ today = 1
       /\ fs = [p \in {LogPath("mmdvmhost", 0), LogPath("mmdvmhost", 1)} |->
                    IF p.date = 0 THEN <<ModeSetLine("IDLE", 0)>>
                    ELSE <<ModeSetLine("DMR", 0)>> \o [i \in 1..others |-> OtherLine(0)]]
       /\ mon = [n \in {"mmdvmhost"} |-> NewLogMonitor(n, LogPath(n, 1))]
       /\ now = 0
       /\ ready = <<MonitorTask("mmdvmhost")>>
       /\ cur = Idle
       /\ waiting = << >>
       /\ sockets = EmptyDict
       /\ appended = [lines |-> 0, truncs |-> 0]
       /\ procs = NoProcessCheck
NextLookback == Loop \/ BroadcastStart
SpecLookback == InitLookback /\ [][NextLookback]_vars

\* A monitor of each kind and its producer: what the parsers make of the lines and
\* what the live tail and the backfill store of the networks
LiveLines(name) ==
    CASE name = "mmdvmhost" ->
            {DmrHeaderLine(1, "N0CALL", "31665", 0),
             BadTime(DmrHeaderLine(1, "N0CALL", "31665", 0)),
             NetConnectedLine("DMR", 0), NetDisconnectedLine("DMR", 0)}
      [] name = "DMRGateway" ->
            {MmdvmConnectedLine(0), LoginLine("HBlink4", 0), ClosingLine("HBlink4", 0)}
      [] name = "YSFGateway" ->
            {LinkedToLine("Kansas", 0), DisconnectRequestedLine(0), NoHeaderLine}
      [] name = "P25Gateway" -> {LinkedReflectorLine("3120", 0), OtherLine(0)}

ProduceKind(m) ==
    /\ appended.lines < MaxRepeat
    /\ \E line \in LiveLines(m) : Produce(m, line)

InitKinds == \E name \in BackfillNames : \E line \in LiveLines(name) : Started(name, <<line>>)
NextKinds == Loop \/ Tailing \/ BroadcastStart \/ \E m \in Monitors : ProduceKind(m)
SpecKinds == InitKinds /\ [][NextKinds]_vars

\* A monitor of the host or of the DMR gateway, its producer and the config overlay
OverlayNames == {"mmdvmhost", "DMRGateway"}

InitOverlay == \E name \in OverlayNames : \E line \in LiveLines(name) : Started(name, <<line>>)
NextOverlay ==
    \/ Loop
    \/ Tailing
    \/ BroadcastStart
    \/ \E m \in Monitors : ProduceKind(m)
    \/ WakeOverlay
    \/ Overlay
SpecOverlay == InitOverlay /\ [][NextOverlay]_vars

\* Two monitors started together by start_all, each as a task of its own, and the
\* clients of the server: the startup as the subscribers see it
StartupNames == {"mmdvmhost", "P25Gateway"}

StartupContent(name) ==
    IF name = "mmdvmhost" THEN <<ModeSetLine("DMR", 0)>> ELSE <<LinkedReflectorLine("3120", 0)>>

InitStartup ==
    /\ state = NewDashboardState(0)
    /\ mon = [n \in StartupNames |-> NewLogMonitor(n, LogPath(n, 0))]
    /\ fs = [p \in {LogPath(n, 0) : n \in StartupNames} |-> StartupContent(p.root)]
    /\ now = 0
    /\ today = 0
    /\ \E order \in Orders(StartupNames) :
          ready = [i \in 1..Cardinality(StartupNames) |-> MonitorTask(order[i])]
    /\ cur = Idle
    /\ waiting = << >>
    /\ sockets = EmptyDict
    /\ appended = [lines |-> 0, truncs |-> 0]
    /\ procs = NoProcessCheck

\* Nothing writes to the logs, no client leaves and the configuration stays as it is
\* during the startup
NextStartup ==
    \/ Loop
    \/ \E m \in Monitors : Poll(m)
    \/ BroadcastStart
    \/ BroadcastSend
    \/ BroadcastFinish
    \/ \E i \in DOMAIN waiting : WakeBroadcast(i)
    \/ Subscribe
    \/ WakeOverlay
    \/ SteadyOverlay
SpecStartup == InitStartup /\ [][NextStartup]_vars

\* The host's monitor alone, its log resolving the mode, with the clients and the
\* overlay; nothing writes to the log after the start
ResolvedContent == <<ModeSetLine("DMR", 0)>>

InitResolved == Started("mmdvmhost", ResolvedContent)
NextResolved ==
    \/ Loop
    \/ \E m \in Monitors : Poll(m)
    \/ BroadcastStart
    \/ BroadcastSend
    \/ BroadcastFinish
    \/ \E i \in DOMAIN waiting : WakeBroadcast(i)
    \/ Subscribe
    \/ WakeOverlay
    \/ SteadyOverlay

\* The event loop runs every runnable task, and every timer, awaited file operation
\* and send completes although the loop is busy now and then; when a client connects
\* is up to the client
FairResolved ==
    /\ SF_vars(RunNext)
    /\ SF_vars(WakeMonitor("mmdvmhost"))
    /\ WF_vars(Start("mmdvmhost"))
    /\ WF_vars(BackfillDay("mmdvmhost"))
    /\ WF_vars(BackfillRead("mmdvmhost"))
    /\ WF_vars(BackfillLine("mmdvmhost"))
    /\ WF_vars(BackfillEnd("mmdvmhost"))
    /\ WF_vars(Poll("mmdvmhost"))
    /\ WF_vars(Read("mmdvmhost"))
    /\ WF_vars(TailLine("mmdvmhost"))
    /\ WF_vars(BroadcastStart)
    /\ WF_vars(BroadcastSend)
    /\ WF_vars(BroadcastFinish)
    /\ SF_vars(\E i \in DOMAIN waiting : WakeBroadcast(i))
    /\ SF_vars(WakeOverlay)
    /\ WF_vars(SteadyOverlay)
SpecResolved == InitResolved /\ [][NextResolved]_vars /\ FairResolved

\* The startup backfill under the scheduling of the event loop: every runnable task is
\* run, and every awaited open and close of a file completes
FairBackfill ==
    /\ SF_vars(RunNext)
    /\ WF_vars(BroadcastStart)
    /\ \A m \in BackfillNames :
          /\ SF_vars(m \in Monitors /\ WakeMonitor(m))
          /\ WF_vars(m \in Monitors /\ Start(m))
          /\ WF_vars(m \in Monitors /\ BackfillDay(m))
          /\ WF_vars(m \in Monitors /\ BackfillRead(m))
          /\ WF_vars(m \in Monitors /\ BackfillLine(m))
          /\ WF_vars(m \in Monitors /\ BackfillEnd(m))
SpecBackfillFair ==
    /\ BackfillFrom({"mmdvmhost", "YSFGateway"}, 1)
    /\ [][NextBackfill]_vars
    /\ FairBackfill

\* The host's monitor tailing while its log gains the line of a network link, with
\* the clients and the overlay
LinkLine == NetConnectedLine("YSF", 0)
ProduceLink(m) == appended.lines < MaxRepeat /\ Produce(m, LinkLine)

NextLink ==
    \/ NextResolved
    \/ \E m \in Monitors : Read(m)
    \/ \E m \in Monitors : TailLine(m)
    \/ \E m \in Monitors : ProduceLink(m)
SpecLink == InitBroadcast /\ [][NextLink]_vars /\ FairResolved

\* ============================================================== properties
LastEvent(s) == s.events[Len(s.events)]

\* What the store shows of itself: SystemStatus, the statistics and the event history
Observable(s) == <<s.status, s.stats, s.events>>

(***************************************************************************)
(* C1: in every reachable state, applying a ModeChanged event (update_mode) *)
(* or a NetworkLinkChanged event (update_network_status) twice in a row,   *)
(* at the same clock reading, leaves the same SystemStatus, statistics and *)
(* event history as applying it once.                                      *)
(***************************************************************************)
C1_Idempotent ==
    /\ \A mode \in {"IDLE", "DMR"} :
         LET once == update_mode(state, mode, now)
         IN Observable(update_mode(once, mode, now)) = Observable(once)
    /\ \A connected \in {PyTrue, PyFalse} :
         LET once == update_network_status(state, "DMR", connected, None, now)
         IN Observable(update_network_status(once, "DMR", connected, None, now))
                = Observable(once)

(***************************************************************************)
(* C2: when the producer writes the line of one event again and again, no  *)
(* WebSocket client is sent more than one snapshot.                        *)
(***************************************************************************)
C2_AtMostOneSnapshot == \A c \in DOMAIN sockets : Len(sockets[c].got) <= 1

\* The step applied a ModeChanged event whose mode is IDLE
IdleModeApplied ==
    /\ state'.events # state.events
    /\ LastEvent(state').event_type = "mode_change"
    /\ LastEvent(state').data.new_mode = "IDLE"

(***************************************************************************)
(* C3: a step that applies a ModeChanged event whose mode is IDLE, from    *)
(* the live tail or from the backfill, leaves no active transmission.      *)
(***************************************************************************)
C3_IdleClearsActive == [][IdleModeApplied => state'.active_transmissions = << >>]_vars

\* IDLE was applied last, and it cleared a transmission that had not ended
C3_Witness ==
    /\ state.events # << >>
    /\ LastEvent(state).event_type = "mode_change"
    /\ LastEvent(state).data.new_mode = "IDLE"
    /\ state.active_transmissions = << >>
    /\ \E i \in DOMAIN state.objs : state.objs[i].active

\* The step of the poll moved monitor m's cursor back at a rotation it detected: the
\* file is smaller than the cursor, or the monitor switched to today's dated file
RotationDetected(m) ==
    \/ mon'[m].path # mon[m].path
    \/ Exists(mon[m].path) /\ Size(mon[m].path) < mon[m].last_position

(***************************************************************************)
(* C4: no step decreases a monitor's read cursor (last_position), except   *)
(* a step that detects a rotation, and that step sets it to exactly 0.     *)
(***************************************************************************)
C4_CursorMonotone ==
    [][\A m \in Monitors :
          mon'[m].last_position < mon[m].last_position
              => RotationDetected(m) /\ mon'[m].last_position = 0]_vars

\* A poll found the file smaller than the cursor, reset it and goes on to read
C4_Witness ==
    \E m \in Monitors :
       mon[m].reset /\ mon[m].last_position = 0 /\ mon[m].pc = "tail_wait_read"

NonBlank(lines) == SelectSeq(lines, LAMBDA l : ~IsBlank(l))

(***************************************************************************)
(* C5: a poll that found the file smaller than the cursor and read the     *)
(* file has read it from position 0 and has given every non-blank line it  *)
(* read to the parser.                                                     *)
(***************************************************************************)
C5_ShrunkFileReadFromStart ==
    \A m \in Monitors :
       (mon[m].reset /\ mon[m].pc = "tail_sleep" /\ mon[m].read_from # -1)
           => mon[m].read_from = 0 /\ mon[m].fed = NonBlank(mon[m].new_lines)

BackfillPcs == {"bf_day", "bf_wait_open", "bf_read", "bf_lines", "bf_wait_close", "bf_end"}

Resolved(m) == \A k \in DOMAIN mon[m].state_to_find : mon[m].state_to_find[k]

(***************************************************************************)
(* C6: the backfill reads no file of a day fourteen or more days back,     *)
(* and once every target of a monitor is resolved its backfill gives no    *)
(* further line to the parser and reads no further file.                   *)
(***************************************************************************)
C6_StopsWhenResolved ==
    /\ [](\A m \in Monitors : \A i \in DOMAIN mon[m].scanned : mon[m].scanned[i] < ScanDays)
    /\ [][\A m \in Monitors :
             (mon[m].pc \in BackfillPcs /\ Resolved(m))
                 => mon'[m].fed = mon[m].fed /\ mon'[m].scanned = mon[m].scanned]_vars

\* The walk ended resolved on the newest line of today's file: the file's older line
\* and the file of thirteen days ago were left alone
C6_Witness ==
    \E m \in Monitors :
       /\ mon[m].pc = "bf_end"
       /\ mon[m].state_to_find # EmptyDict
       /\ Resolved(m)
       /\ mon[m].scanned = <<0>>
       /\ Len(mon[m].fed) = 1
       /\ Size(WithDate(mon[m].path, today)) = 2
       /\ Exists(WithDate(mon[m].path, today - (ScanDays - 1)))

\* The store holds an explicit 'unknown' for the fact of backfill target k
UnknownHeld(s, k) ==
    LET networks == s.status.networks
        unknown(keys) == \E n \in keys \cap DOMAIN networks : networks[n] = "unknown"
    IN CASE k = "current_mode" -> s.status.current_mode = "unknown"
         [] k = "dmr_mmdvm_connection" -> unknown({"DMR-MMDVM"})
         [] k = "dmr_network_connection" -> unknown({"DMR", "DMR-Unknown", "DMR-HBlink4"})
         [] k = "p25_reflector" -> unknown({"Network", "P25-Reflector"})
         [] k = "ysf_reflector" -> unknown({"YSF Network", "YSF-Reflector"})

(***************************************************************************)
(* C7: when a monitor's backfill is over, the store holds an explicit      *)
(* 'unknown' for every target the fourteen-day walk left unresolved.       *)
(***************************************************************************)
C7_UnresolvedMarkedUnknown ==
    \A m \in Monitors :
       mon[m].pc = "tail_poll"
           => \A k \in DOMAIN mon[m].state_to_find :
                 ~mon[m].state_to_find[k] => UnknownHeld(state, k)

\* The lines of the files of the fourteen days from day d back, newest first, each
\* with the number of days back of its file
RECURSIVE WalkLines(_, _)
WalkLines(path, d) ==
    IF d >= ScanDays THEN << >>
    ELSE LET p == WithDate(path, today - d)
             here == IF Exists(p)
                     THEN [i \in 1..Size(p) |-> [line |-> Reverse(fs[p])[i], day |-> d]]
                     ELSE << >>
         IN here \o WalkLines(path, d + 1)

\* The lines that bear on a reflector link
ReflectorLines(path) ==
    SelectSeq(WalkLines(path, 0),
              LAMBDA r : r.line.text \in {"Linked to", "Disconnect has been requested",
                                          "linked to reflector"})

(***************************************************************************)
(* C8: when the backfill of the YSF or the P25 gateway's monitor is over   *)
(* and the newest line of the fourteen days that bears on the reflector    *)
(* link is a 'linked to X' line, the store holds X as a network's status   *)
(* and no file older than that line's was read.                            *)
(***************************************************************************)
C8_ReflectorResolved ==
    \A m \in Monitors \cap {"YSFGateway", "P25Gateway"} :
       LET relevant == ReflectorLines(mon[m].path)
       IN (/\ mon[m].pc = "tail_poll"
           /\ relevant # << >>
           /\ Head(relevant).line.text \in {"Linked to", "linked to reflector"})
          => /\ \E n \in DOMAIN state.status.networks :
                   state.status.networks[n] = Head(relevant).line.reflector
             /\ \A i \in DOMAIN mon[m].scanned : mon[m].scanned[i] <= Head(relevant).day

\* Client c was sent the message
Delivered(c, message) == \E i \in DOMAIN sockets[c].got : sockets[c].got[i] = message

(***************************************************************************)
(* C9: when a delivery ends, every client it started with either was sent  *)
(* the snapshot, and is then not removed by the delivery, or is no longer  *)
(* in the subscriber set.                                                  *)
(***************************************************************************)
C9_FailedRemovedOthersServed ==
    [][(cur.kind = "broadcast" /\ cur.pc = "send" /\ cur.todo = << >> /\ cur' = Idle)
          => \A c \in cur.copy :
                /\ ~Delivered(c, cur.message) => c \notin state'.websocket_clients
                /\ Delivered(c, cur.message)
                      => (c \in state.websocket_clients => c \in state'.websocket_clients)]_vars

\* A delivery is about to end: one send raised, another client was served
C9_Witness ==
    /\ cur.kind = "broadcast"
    /\ cur.pc = "send"
    /\ cur.todo = << >>
    /\ cur.disconnected # << >>
    /\ \E c \in cur.copy : Delivered(c, cur.message) /\ c \in state.websocket_clients

\* The step of the live tail gave a line to the parser
TailApplied(m) == mon[m].pc = "tail_lines" /\ Len(mon'[m].fed) = Len(mon[m].fed) + 1
\* What the parser made of that line
AppliedData(m) ==
    LET entry == parse_line(mon[m].parser, mon'[m].fed[Len(mon'[m].fed)], now)
    IN IF entry = NoEntry THEN EmptyDict ELSE entry.data

(***************************************************************************)
(* C10: a step of the live tail that applies a TransmissionStarted event   *)
(* raises total_calls_today and the count of its mode by exactly 1; one    *)
(* that applies a TransmissionEnded event changes no counter and leaves no *)
(* active record for the key of the transmission.                          *)
(***************************************************************************)
C10_CountersPerStart ==
    [][\A m \in Monitors :
          TailApplied(m) =>
             LET data == AppliedData(m)
                 event == DictGet(data, "event", None)
                 key == <<DictGet(data, "mode", "Unknown"), DictGet(data, "slot", 0),
                          DictGet(data, "source", "Unknown")>>
             IN /\ event \in RxEvents =>
                      /\ state'.stats.total_calls_today = state.stats.total_calls_today + 1
                      /\ state'.stats.calls_by_mode[data.mode]
                            = DictGet(state.stats.calls_by_mode, data.mode, 0) + 1
                /\ event \in EndEvents =>
                      /\ state'.stats = state.stats
                      /\ key \notin ActiveKeys(state')]_vars

\* The same key was started twice and ended once: counted twice, no active record
C10_Witness ==
    /\ DictGet(state.stats.calls_by_mode, "DMR", 0) = 2
    /\ state.stats.total_calls_today = 2
    /\ Len(state.objs) = 2
    /\ TxKey(state.objs[1]) = TxKey(state.objs[2])
    /\ state.active_transmissions = << >>
    /\ LastEvent(state).event_type = "transmission_end"

(***************************************************************************)
(* C11: when a poll of a host monitor has read exactly one line and that   *)
(* line is 'Mode set to M', then at the end of the poll current_mode is M  *)
(* and the poll has created exactly one broadcast task.                    *)
(***************************************************************************)
C11_ModeLineApplied ==
    \A m \in Monitors :
       (/\ mon[m].parser = "MMDVMHostParser"
        /\ mon[m].pc = "tail_sleep"
        /\ mon[m].read_from # -1
        /\ Len(mon[m].new_lines) = 1
        /\ mon[m].new_lines[1].text = "Mode set to")
       => /\ state.status.current_mode = mon[m].new_lines[1].mode
          /\ mon[m].spawned = 1

(***************************************************************************)
(* C12: parse_line gives the same result for the same parser and line at   *)
(* any two times: for every line of a monitor's files, the entries made of *)
(* it at two clock readings are equal.                                     *)
(***************************************************************************)
C12_ParseDeterministic ==
    \A m \in Monitors : \A p \in DOMAIN fs : \A i \in DOMAIN fs[p] :
       \A t1, t2 \in 0..MaxClock :
          mon[m].parser # None
              => parse_line(mon[m].parser, fs[p][i], t1) = parse_line(mon[m].parser, fs[p][i], t2)

\* The reflector names and numbers of the lines
LinkTargets == {"Kansas", "3120", "Unknown"}

\* The history entries a step adds
NewEvents(old, new) == {i \in DOMAIN new.events : i > Len(old.events)}

\* Entry i of the history is the last one about its network
LatestOf(s, i) ==
    /\ s.events[i].event_type = "network_status"
    /\ \A j \in DOMAIN s.events :
          (j > i /\ s.events[j].event_type = "network_status")
              => s.events[j].data.network # s.events[i].data.network

DisconnectStoresFalse ==
    \A i \in NewEvents(state, state') :
       (LatestOf(state', i) /\ state'.events[i].data.connected = PyFalse)
           => state'.status.networks[state'.events[i].data.network] = PyFalse

DisconnectResets(s) ==
    \A n \in DOMAIN s.status.networks : \A target \in LinkTargets \cup {None} :
       update_network_status(s, n, PyFalse, target, now).status.networks[n] = PyFalse

LinkValuesIn(values) ==
    \A n \in DOMAIN state.status.networks : state.status.networks[n] \in values

(***************************************************************************)
(* C13, as the code has it: every network's link value is True, a target,  *)
(* False or the string 'unknown' the backfill stores for an unresolved     *)
(* reflector; a step that applies a disconnection leaves exactly False     *)
(* under that network, and a disconnection applied to any reachable store  *)
(* leaves False whatever was stored and whatever target is passed.         *)
(***************************************************************************)
C13_LinkValues ==
    /\ [](LinkValuesIn({PyTrue, PyFalse, "unknown"} \cup LinkTargets) /\ DisconnectResets(state))
    /\ [][DisconnectStoresFalse]_vars

\* C13 as stated: the values are True, a target or False only
C13_LinkValuesAsStated ==
    /\ [](LinkValuesIn({PyTrue, PyFalse} \cup LinkTargets) /\ DisconnectResets(state))
    /\ [][DisconnectStoresFalse]_vars

\* A disconnection was applied to a network that was connected before
C13_Witness ==
    /\ Len(state.events) >= 2
    /\ LastEvent(state).event_type = "network_status"
    /\ LastEvent(state).data.connected = PyFalse
    /\ state.status.networks[LastEvent(state).data.network] = PyFalse
    /\ \E i \in DOMAIN state.events :
          /\ state.events[i].event_type = "network_status"
          /\ state.events[i].data.network = LastEvent(state).data.network
          /\ state.events[i].data.connected = PyTrue

\* What the store holds apart from the time of the last update
Content(s) ==
    <<[s.status EXCEPT !.last_update = 0], s.stats, s.events, s.active_transmissions,
      s.recent_calls, s.objs>>

(***************************************************************************)
(* C14: every step that changes the store's content (mode, network link,   *)
(* transmission start or end, idle clear) at a clock reading later than    *)
(* the last one leaves a last_update greater than before.                  *)
(***************************************************************************)
C14_LastUpdateAdvances ==
    [][(Content(state') # Content(state) /\ now' > now)
           => state'.status.last_update > state.status.last_update]_vars

\* The step sends a message to a client
Delivers ==
    \E c \in DOMAIN sockets :
       c \in DOMAIN sockets' /\ Len(sockets'[c].got) > Len(sockets[c].got)

(***************************************************************************)
(* C15: no step sends a snapshot to a client while a monitor is between    *)
(* the start and the end of its backfill, with two monitors started        *)
(* together.                                                               *)
(***************************************************************************)
C15_NoDeliveryDuringBackfill ==
    [][Delivers => \A m \in Monitors : mon[m].pc \notin BackfillPcs]_vars

(***************************************************************************)
(* C16: a round of the config overlay leaves every network whose link      *)
(* value is False or a target as it was.                                   *)
(***************************************************************************)
C16_OverlayKeepsLinks ==
    [][(cur = OverlayTask /\ cur' = Idle)
           => \A n \in DOMAIN state.status.networks :
                 state.status.networks[n] \in {PyFalse} \cup LinkTargets
                     => state'.status.networks[n] = state.status.networks[n]]_vars

\* The broadcast tasks of a queue
BroadcastsIn(q) == Cardinality({i \in DOMAIN q : q[i].kind = "broadcast"})

\* The broadcast tasks that are runnable, running or suspended in a send
PendingBroadcasts ==
    BroadcastsIn(ready) + BroadcastsIn(waiting) + (IF cur.kind = "broadcast" THEN 1 ELSE 0)

(***************************************************************************)
(* C17: the mutations of one debounce window share one pending broadcast,  *)
(* so at most one broadcast is pending at any time, and a broadcast        *)
(* becomes runnable when a timer expires, never in the step that changes   *)
(* the store.                                                              *)
(***************************************************************************)
C17_Debounced ==
    /\ [](PendingBroadcasts <= 1)
    /\ [][Content(state') # Content(state) => BroadcastsIn(ready') <= BroadcastsIn(ready)]_vars

\* What a snapshot shows of the current state: the message without the event
\* history and the time of the last update
SnapshotState(message) ==
    [message EXCEPT !.events = << >>, !.status.status.last_update = 0]

(***************************************************************************)
(* C18: when a broadcast task starts and the state its snapshot would show *)
(* (mode, networks, transmissions, calls, statistics) equals the state of  *)
(* the last snapshot sent, the task sends nothing.                         *)
(***************************************************************************)
C18_UnchangedNotSent ==
    [][(/\ cur = BroadcastTask
        /\ state.last_broadcast_hash # << >>
        /\ SnapshotState(StateUpdateMessage(state))
               = SnapshotState(state.last_broadcast_hash[1]))
           => ~(cur'.kind = "broadcast" /\ cur'.pc = "send")]_vars

\* The line would resolve the target k of a backfill
Relevant(parser, line, k) ==
    LET entry == parse_line(parser, line, 0)
    IN /\ entry # NoEntry
       /\ process_state_entry(NewDashboardState(0), [x \in {k} |-> FALSE], entry, 0).found

\* The scan of m has read its file and has not yet gone through a line
ScanRead(m) ==
    /\ mon[m].pc = "bf_lines"
    /\ Exists(mon[m].log_file)
    /\ Len(mon[m].lines) = Len(LastN(fs[mon[m].log_file], lookback_lines))

\* The mode lines of the walked files, newest first
ModeLines(path) == SelectSeq(WalkLines(path, 0), LAMBDA r : r.line.text = "Mode set to")

BackfillOver(m) == mon[m].pc \in {"tail_poll", "tail_wait_read", "tail_read", "tail_lines",
                                  "tail_wait_close", "tail_sleep"}

(***************************************************************************)
(* C19: a scan that reads a file with a target unresolved goes through a   *)
(* line that resolves it whenever the file holds one, however long the     *)
(* file, so that no older file is asked for a fact a newer file records;   *)
(* and after the host's backfill the mode is that of the most recent mode  *)
(* line of the walked files.                                               *)
(***************************************************************************)
C19_MostRecentWins ==
    \A m \in Monitors :
       /\ ScanRead(m) =>
             \A k \in DOMAIN mon[m].state_to_find :
                (/\ ~mon[m].state_to_find[k]
                 /\ \E i \in DOMAIN fs[mon[m].log_file] :
                       Relevant(mon[m].parser, fs[mon[m].log_file][i], k))
                    => \E j \in DOMAIN mon[m].lines :
                          Relevant(mon[m].parser, mon[m].lines[j], k)
       /\ (/\ BackfillOver(m)
           /\ mon[m].parser = "MMDVMHostParser"
           /\ ModeLines(mon[m].path) # << >>)
              => state.status.current_mode = ModeLines(mon[m].path)[1].line.mode

\* The client was sent a snapshot that shows the mode the host's backfill resolved
ShownResolved(c) ==
    /\ c \in DOMAIN sockets
    /\ \E i \in DOMAIN sockets[c].got :
          sockets[c].got[i].status.status.current_mode = ResolvedContent[1].mode

(***************************************************************************)
(* C20: when the host's backfill is at its end and a client is subscribed, *)
(* the client is eventually sent a snapshot that shows the mode the        *)
(* backfill resolved, with nothing written to the logs afterwards.         *)
(***************************************************************************)
C20_ResolvedEventuallySent ==
    \A c \in 1..MaxClients :
       (mon["mmdvmhost"].pc = "bf_end" /\ c \in state.websocket_clients) ~> ShownResolved(c)

\* The live tail is about to apply the line of a network link
LinkLineNext ==
    /\ mon["mmdvmhost"].pc = "tail_lines"
    /\ mon["mmdvmhost"].lines # << >>
    /\ Head(mon["mmdvmhost"].lines) = LinkLine

\* The client was sent a snapshot that shows the link
ShownLink(c) ==
    /\ c \in DOMAIN sockets
    /\ \E i \in DOMAIN sockets[c].got :
          LinkLine.network \in DOMAIN sockets[c].got[i].status.status.networks

(***************************************************************************)
(* C21: when the live tail applies a network link line while a client is   *)
(* subscribed and broadcasts are not suppressed, the client is eventually  *)
(* sent a snapshot that shows the link, with nothing more written to the   *)
(* log.                                                                    *)
(***************************************************************************)
C21_ChangeEventuallySent ==
    \A c \in 1..MaxClients :
       (/\ LinkLineNext
        /\ c \in state.websocket_clients
        /\ sockets[c].open
        /\ ~state.suppress_broadcasts) ~> ShownLink(c)

\* Monitor m's poll begins and its path does not exist
PollMissing(m) ==
    /\ cur = MonitorTask(m)
    /\ mon[m].pc = "tail_poll"
    /\ mon[m].running
    /\ ~Exists(mon[m].path)

\* Monitor m's poll begins and its file holds data the cursor is not at the end of
PollFinds(m) ==
    /\ cur = MonitorTask(m)
    /\ mon[m].pc = "tail_poll"
    /\ mon[m].running
    /\ Exists(mon[m].path)
    /\ Size(mon[m].path) > 0
    /\ Size(mon[m].path) # mon[m].last_position

(***************************************************************************)
(* C22: a poll that finds the path missing reads nothing, leaves the       *)
(* cursor and the store as they are, creates no task and ends in the       *)
(* regular sleep of the loop; a poll that finds the file with data the     *)
(* cursor is not at the end of goes on to read it.                         *)
(***************************************************************************)
C22_MissingPathPollIdle ==
    [][\A m \in Monitors :
          /\ PollMissing(m) =>
                /\ mon'[m].last_position = mon[m].last_position
                /\ mon'[m].path = mon[m].path
                /\ mon'[m].read_from = -1
                /\ mon'[m].pc = "tail_sleep"
                /\ state' = state
                /\ ready' = ready
          /\ PollFinds(m) => mon'[m].pc = "tail_wait_read"]_vars

\* A poll found the path missing, the file was written again and a later poll read it
C22_Witness ==
    \E m \in Monitors :
       /\ mon[m].missed
       /\ mon[m].read_from # -1
       /\ mon[m].new_lines # << >>
       /\ mon[m].pc = "tail_wait_close"

(***************************************************************************)
(* C23: a monitor that nobody stopped is never lost: when its file is      *)
(* there its task has not ended, so that it can still back-fill and tail   *)
(* the file.                                                               *)
(***************************************************************************)
C23_ReaderNotLost ==
    \A m \in Monitors : Exists(mon[m].path) => mon[m].pc # "returned"

\* The parser makes no event of the line: no header, or a message of no known pattern
Unparsed(parser, line) ==
    LET entry == parse_line(parser, line, 0)
    IN entry = NoEntry \/ entry.data = EmptyDict

(***************************************************************************)
(* C24: when a poll has read lines of which one makes no event, the poll   *)
(* ends in the regular sleep of the loop and every non-blank line it read, *)
(* before and after that one, was given to the parser and applied.         *)
(***************************************************************************)
C24_FailedLineSkipped ==
    \A m \in Monitors :
       (/\ mon[m].pc = "tail_sleep"
        /\ mon[m].read_from # -1
        /\ mon[m].parser # None
        /\ \E i \in DOMAIN mon[m].new_lines :
              ~IsBlank(mon[m].new_lines[i]) /\ Unparsed(mon[m].parser, mon[m].new_lines[i]))
           => mon[m].fed = NonBlank(mon[m].new_lines)

(***************************************************************************)
(* C25: a poll of a tailing monitor that read its file, the file never     *)
(* truncated and the day not changed, has read exactly the lines between   *)
(* the cursor it started from and the cursor it ends with, and has given   *)
(* each non-blank one of them to the parser once, in file order.           *)
(***************************************************************************)
C25_AppendedFedOnceInOrder ==
    \A m \in Monitors :
       (/\ mon[m].pc = "tail_sleep"
        /\ mon[m].read_from # -1
        /\ mon[m].parser # None
        /\ appended.truncs = 0
        /\ today = 0)
           => /\ mon[m].new_lines =
                    SubSeq(fs[mon[m].path], mon[m].read_from + 1, mon[m].last_position)
              /\ mon[m].fed = NonBlank(mon[m].new_lines)

\* A read line that is one part of a line of the file
IsPiece(line) == "cut" \in DOMAIN line \/ "rest" \in DOMAIN line

(***************************************************************************)
(* C26: every line a poll of a tailing monitor gives to the parser is a    *)
(* whole line of the file, and while the last line of the file is not      *)
(* terminated the cursor a poll has left is not past its beginning.        *)
(***************************************************************************)
C26_OnlyCompleteLinesFed ==
    \A m \in Monitors :
       mon[m].read_from # -1
          => /\ \A i \in DOMAIN mon[m].fed : ~IsPiece(mon[m].fed[i])
             /\ (mon[m].pc = "tail_sleep" /\ Unterminated(m))
                   => mon[m].last_position < Size(mon[m].path)

TodayPath(m) == WithDate(mon[m].path, today)
DateAdvanced(m) == mon[m].path.dated /\ mon[m].path.date # today

(***************************************************************************)
(* C27: the rotation check of a monitor whose path holds a date that is    *)
(* not today's gives today's path and cursor 0 when today's file exists    *)
(* and leaves path and cursor alone when it does not; a poll changes the   *)
(* path only to today's existing file, with cursor 0, and a poll that      *)
(* finds no file of today keeps the path and, the old file not shrunk,     *)
(* the cursor.                                                             *)
(***************************************************************************)
C27_RotationOnlyToExistingFile ==
    [][\A m \in Monitors :
          /\ DateAdvanced(m) =>
                LET after == check_log_rotation(mon[m])
                IN IF Exists(TodayPath(m))
                   THEN after.path = TodayPath(m) /\ after.last_position = 0
                   ELSE after = mon[m]
          /\ mon'[m].path # mon[m].path =>
                /\ DateAdvanced(m)
                /\ Exists(TodayPath(m))
                /\ mon'[m].path = TodayPath(m)
                /\ mon'[m].last_position = 0
          /\ (/\ cur = MonitorTask(m)
              /\ mon[m].pc = "tail_poll"
              /\ DateAdvanced(m)
              /\ ~Exists(TodayPath(m))) =>
                /\ mon'[m].path = mon[m].path
                /\ (Exists(mon[m].path) /\ Size(mon[m].path) >= mon[m].last_position)
                      => mon'[m].last_position = mon[m].last_position
                /\ mon'[m].pc \in {"tail_sleep", "tail_wait_read"}
    ]_vars

\* A monitor that has switched to today's file and is about to read it from the start
C27_Witness ==
    \E m \in Monitors :
       /\ mon[m].path.date = today
       /\ mon[m].path # LogPath(m, 0)
       /\ mon[m].pc = "tail_wait_read"
       /\ mon[m].last_position = 0
       /\ Exists(LogPath(m, 0))

(***************************************************************************)
(* C28: a monitor on which stop was called and which runs next at its      *)
(* start or at the boundary between two polls returns there, without a     *)
(* change of the store nor a read of its file.                             *)
(***************************************************************************)
C28_StoppedReaderEnds ==
    [][\A m \in Monitors :
          (/\ mon[m].stopped
           /\ cur = MonitorTask(m)
           /\ mon[m].pc \in {"start", "tail_poll"})
             => /\ mon'[m].pc = "returned"
                /\ state' = state
    ]_vars

\* The tasks of debounced_broadcast that are not done
LiveDebounced ==
    Len(SelectSeq(ready \o waiting, IsDebounced)) + (IF IsDebounced(cur) THEN 1 ELSE 0)

\* A task suspended in a send of its delivery, clients still to come
Delivering(task) == task.kind = "broadcast" /\ task.pc = "send" /\ task.todo # << >>

(***************************************************************************)
(* C29: at most one task of debounced_broadcast is live, a task in its     *)
(* sleep exists only while a batch is pending, and no step takes away a    *)
(* task that is suspended in a delivery with clients still to be sent to.  *)
(***************************************************************************)
C29_DebounceSafe ==
    [][/\ LiveDebounced <= 1
       /\ (\E i \in DOMAIN waiting : waiting[i] = DebouncedTask("sleep"))
             => state.broadcast_pending
       /\ \A i \in DOMAIN waiting :
             Delivering(waiting[i])
                => \/ \E j \in DOMAIN waiting' : waiting'[j] = waiting[i]
                   \/ \E j \in DOMAIN ready' : ready'[j] = waiting[i]
    ]_vars

\* The short codes of the modes (config_reader.py:128-136) and of the idle mode
\* (state.py:18)
CanonicalModes == {"IDLE", "D-Star", "DMR", "YSF", "P25", "NXDN", "POCSAG", "FM"}

(***************************************************************************)
(* C30: the current mode of the store is always one of the short mode      *)
(* codes, whatever spelling the host's "Mode set to" lines use.            *)
(***************************************************************************)
C30_ModeIsCanonical == state.status.current_mode \in CanonicalModes

\* The monitor m is about to apply the line of the end of a DMR transmission
EndLineNext(m) ==
    /\ cur = MonitorTask(m)
    /\ mon[m].pc = "tail_lines"
    /\ mon[m].lines # << >>
    /\ Head(mon[m].lines).text = "DMR end of voice transmission"
    /\ ~LogsToBuffer(mon[m].name)
    /\ mon[m].parser # None

(***************************************************************************)
(* C31: the step that applies the line of the end of a transmission leaves *)
(* every active record whose (mode, slot, source) is not that of the line  *)
(* in the active set, unchanged.                                           *)
(***************************************************************************)
C31_EndRemovesOnlyItsKey ==
    [][\A m \in Monitors :
          EndLineNext(m) =>
             LET line == Head(mon[m].lines)
             IN \A i \in DOMAIN state.active_transmissions :
                   LET item == state.active_transmissions[i]
                   IN item.key # <<"DMR", line.slot, line.source>>
                         => /\ \E j \in DOMAIN state'.active_transmissions :
                                  state'.active_transmissions[j] = item
                            /\ state'.objs[item.obj] = state.objs[item.obj]
    ]_vars

\* The keys and the modes the ends of the property are asked for
SomeKeys == {<<"DMR", 1, "N0CALL">>, <<"DMR", 2, "W1AW">>, <<"YSF", 0, "N0CALL">>}
SomeModes == {"DMR", "YSF"}
ActiveModes(s) == {s.objs[s.active_transmissions[i].obj].mode : i \in DOMAIN s.active_transmissions}

(***************************************************************************)
(* C32: in every reachable state, end_transmission of a key that is not    *)
(* active and end_transmission_by_mode of a mode without an active record  *)
(* give the store back as it is (no event, no task, no change of the       *)
(* counters or of last_update); and the step that applies the line of an   *)
(* end while no record of its mode is active changes neither the store nor *)
(* the runnable tasks.                                                     *)
(***************************************************************************)
C32_EndOfInactiveIsNoOp ==
    [][/\ \A key \in SomeKeys \ ActiveKeys(state) : \A t \in 0..MaxClock :
             end_transmission(state, key, 0, t) = state
       /\ \A mode \in SomeModes \ ActiveModes(state) : \A t \in 0..MaxClock :
             end_transmission_by_mode(state, mode, t) = state
       /\ \A m \in Monitors :
             (EndLineNext(m) /\ "DMR" \notin ActiveModes(state))
                => state' = state /\ ready' = ready
    ]_vars

\* The line of an end was applied to a store that never held a transmission
C32_Witness ==
    \E m \in Monitors :
       /\ mon[m].read_from # -1
       /\ mon[m].fed # << >>
       /\ mon[m].fed[Len(mon[m].fed)].text = "DMR end of voice transmission"
       /\ state.objs = << >>

\* The 'transmission_end' entries of the event history for a key
EndedMarkers(s, key) ==
    Len(SelectSeq(s.events,
                  LAMBDA e : e.event_type = "transmission_end" /\ TxKey(e.data) = key))

(***************************************************************************)
(* C33: in every step, a record whose key leaves the active set is marked  *)
(* inactive and the event history gains exactly one 'transmission_end'     *)
(* entry for it.                                                           *)
(***************************************************************************)
C33_LeavingIsMarkedEnded ==
    [][\A i \in DOMAIN state.active_transmissions :
          LET item == state.active_transmissions[i]
          IN item.key \notin ActiveKeys(state')
                => /\ ~state'.objs[item.obj].active
                   /\ EndedMarkers(state', item.key) = EndedMarkers(state, item.key) + 1
    ]_vars

(***************************************************************************)
(* C34: no step changes a field of a record that is in the recent-call     *)
(* history.                                                                *)
(***************************************************************************)
C34_HistoryRecordsImmutable ==
    [][\A i \in DOMAIN state.recent_calls :
          state'.objs[state.recent_calls[i]] = state.objs[state.recent_calls[i]]
    ]_vars

\* The most entries one step appends to a history
MaxStepAppends == 2

\* `new` is `old` with its last k entries appended, the oldest dropped beyond n
AppendedTo(old, new, n) ==
    \E k \in 0..MaxStepAppends :
       /\ k <= Len(new)
       /\ new = LastN(old \o SubSeq(new, Len(new) - k + 1, Len(new)), n)

(***************************************************************************)
(* C35: the recent-call history never holds more than 50 records and the   *)
(* event history never more than 100 entries, and every step leaves each   *)
(* history as it was with the new entries appended in order, only the      *)
(* oldest entries dropped when it is full.                                 *)
(***************************************************************************)
C35_HistoriesBounded ==
    [][/\ Len(state.recent_calls) <= max_recent_calls
       /\ Len(state.events) <= max_events
       /\ Len(state'.recent_calls) <= max_recent_calls
       /\ Len(state'.events) <= max_events
       /\ AppendedTo(state.recent_calls, state'.recent_calls, max_recent_calls)
       /\ AppendedTo(state.events, state'.events, max_events)
    ]_vars

\* Both histories are full and have dropped their oldest entry
C35_Witness ==
    /\ Len(state.recent_calls) = max_recent_calls
    /\ state.recent_calls[1] > 1
    /\ Len(state.events) = max_events
    /\ state.events[1].event_type = "transmission_end"

\* The monitor m has entered the tail with the cursor at the size of its file
EnteredTailing(m) ==
    /\ m \in Monitors
    /\ mon[m].pc = "tail_poll"
    /\ mon[m].read_from = -1
    /\ Exists(mon[m].path)
    /\ mon[m].last_position = Size(mon[m].path)

C37_RotationLosesNoLine ==
    [][\A m \in Monitors :
          (mon'[m].path # mon[m].path /\ Exists(mon[m].path))
             => NonBlank(SubSeq(fs[mon[m].path], mon[m].last_position + 1,
                                Size(mon[m].path))) = << >>
    ]_vars

\* The age of the state a snapshot describes: the number of history entries it shows
\* (every change of the host's mode appends one, and fewer than EventsLimit are made)
SnapshotAge(message) == Len(message.events)

(***************************************************************************)
(* C38: the snapshots a client has received are in the order of the states *)
(* they describe (none is older than one received before it), and once no  *)
(* delivery is under way the retained hash is that of the newest snapshot  *)
(* any client received.                                                    *)
(***************************************************************************)
C38_SnapshotsInOrder ==
    /\ \A c \in DOMAIN sockets : \A i, j \in DOMAIN sockets[c].got :
          i < j => SnapshotAge(sockets[c].got[i]) <= SnapshotAge(sockets[c].got[j])
    /\ \A c \in DOMAIN sockets : \A i \in DOMAIN sockets[c].got :
          state.last_broadcast_hash # << >>
             /\ SnapshotAge(sockets[c].got[i]) <= SnapshotAge(state.last_broadcast_hash[1])

\* The sum of the values of a dict of counts
RECURSIVE SumValues(_)
SumValues(d) ==
    IF DOMAIN d = {} THEN 0
    ELSE LET k == CHOOSE x \in DOMAIN d : TRUE
         IN d[k] + SumValues([x \in DOMAIN d \ {k} |-> d[x]])

(***************************************************************************)
(* C39: total_calls_today is the sum of the counts in calls_by_mode, the   *)
(* number of distinct sources is at most total_calls_today, and the        *)
(* active_transmissions count of get_status is the number of keys active.  *)
(***************************************************************************)
C39_CountersAgree ==
    /\ state.stats.total_calls_today = SumValues(state.stats.calls_by_mode)
    /\ Cardinality(state.stats.active_users) <= state.stats.total_calls_today
    /\ get_status(state).active_transmissions = Cardinality(ActiveKeys(state))

\* Two calls of one source have been counted while the monitor tails, one still active
C39_Witness ==
    /\ state.stats.total_calls_today = 2
    /\ Cardinality(state.stats.active_users) = 1
    /\ Cardinality(ActiveKeys(state)) = 1
    /\ \E m \in Monitors : mon[m].read_from # -1

(***************************************************************************)
(* C40: what the process check returned for a requested name is the status *)
(* a check determined for that name: every name of the last call is one    *)
(* the cached check covered, and is returned with the status cached.       *)
(***************************************************************************)
C40_ReturnedStatusWasDetermined ==
    \A name \in DOMAIN procs.returned :
       /\ name \in DOMAIN procs._process_cache
       /\ procs.returned[name] = procs._process_cache[name]

====
